---- MODULE Spec2Model ----
(***************************************************************************)
(* A model of github.com/amrbekhit/microchipboot: the host-side programmer *)
(* for the Microchip Unified Bootloader.                                   *)
(*                                                                         *)
(* Two layers are modelled, under these specifications:                    *)
(*   Spec       the programming engine (pic8Programmer) driving the        *)
(*              Bootloader interface: LoadHex, Connect, Program, Verify,   *)
(*              Reset.                                                     *)
(*   SpecChecksum  the engine verifying by checksum segments longer than   *)
(*              one checksum chunk.                                        *)
(*   SpecErase  eraseSegments over long segments and small erase rows.     *)
(*   SpecWrite  Program over segments of successive hex files that overlap.*)
(*   SpecFrame  the serialization of a Command into the frame send builds. *)
(*   SpecCodec  the serial codec (serialBootloader) driving the port:      *)
(*              the ten operations, send and recv, one port Read a step.   *)
(*   SpecRetry  the codec under a caller that repeats one read while       *)
(*              a whole late reply may still be outstanding.               *)
(*   SpecParse  GetVersion over the 16-byte responses of a device.         *)
(*                                                                         *)
(* A uint32 is a pair <<hi, lo>> of 16-bit halves, so that Go's modulo     *)
(* 2^32 arithmetic is computed exactly; a byte is a number 0..255.         *)
(***************************************************************************)
EXTENDS Integers, Sequences, FiniteSets, TLC

VARIABLES
    \* ---- pic8Programmer (src/programmer_pic8.go:218-229)
    profile,    \* PIC8Profile, fixed by NewPIC8Programmer
    options,    \* PIC8Options, fixed by NewPIC8Programmer
    info,       \* the cached VersionInfo
    flash,      \* the four segment sequences
    id,
    config,
    eeprom,
    \* ---- what the programmer calls did
    succeeded,  \* the calls among LoadHex and Connect that have returned nil so far
    input,      \* the data segments the last call parsed from its hex file (LoadHex)
    trace,      \* the Bootloader calls it made, in order, each with its outcome
    result,     \* what it returned
    \* ---- serialBootloader and its port (src/unnamed/part_001)
    pc,         \* where the codec is: "closed", "idle", inside a recv ("echo", "code", "resp"), "done"
    cmd,        \* the Command being exchanged
    tx,         \* send's tx: the frame built for it
    written,    \* the frames given to port.Write by the current operation, and whether each Write failed
    wire,       \* bytes the device has sent that have not reached the port yet
    rx,         \* bytes received by the port that no Read has returned yet
    resp,       \* recv's resp slice
    rcap,       \* cap(resp)
    got,        \* what each finished recv of the current operation returned
    sres        \* what the operation returned

engineVars == <<profile, options, info, flash, id, config, eeprom, succeeded, input, trace, result>>
codecVars == <<pc, cmd, tx, written, wire, rx, resp, rcap, got, sres>>
vars == <<profile, options, info, flash, id, config, eeprom, succeeded, input, trace, result,
          pc, cmd, tx, written, wire, rx, resp, rcap, got, sres>>

(***************************************************************************)
(* uint32 and uint16 arithmetic                                            *)
(***************************************************************************)
\* 2^16: the modulus of a uint16 and of each half of a uint32.
U16 == 256 * 256

\* The uint32 of a small non-negative number.
U32(n) == <<n \div U16, n % U16>>

\* Go's uint32(i) of an int i >= -65536 (two's complement for i < 0).
ToUint32(i) == IF i >= 0 THEN <<(i \div U16) % U16, i % U16>> ELSE <<U16 - 1, U16 + i>>

Add32(a, b) ==
    LET lo == a[2] + b[2]
    IN  <<(a[1] + b[1] + lo \div U16) % U16, lo % U16>>

Sub32(a, b) ==
    LET borrow == IF a[2] < b[2] THEN 1 ELSE 0
    IN  <<(a[1] - b[1] - borrow + U16) % U16, (a[2] - b[2] + U16) % U16>>

Lt32(a, b) == a[1] < b[1] \/ (a[1] = b[1] /\ a[2] < b[2])
Le32(a, b) == a = b \/ Lt32(a, b)

RECURSIVE AndBits(_, _, _)
\* The bitwise AND of x and y, both at most ones = 2^n - 1.
AndBits(x, y, ones) ==
    IF x = 0 \/ y = 0 THEN 0
    ELSE IF y = ones THEN x
    ELSE (x % 2) * (y % 2) + 2 * AndBits(x \div 2, y \div 2, ones \div 2)

\* a & ^m on uint32.
AndNot32(a, m) ==
    <<AndBits(a[1], U16 - 1 - m[1], U16 - 1), AndBits(a[2], U16 - 1 - m[2], U16 - 1)>>

\* A uint32 used as a Go int index or length: its value when it is below 2^16,
\* and otherwise a number larger than every slice of the model.
AsIndex(a) == IF a[1] = 0 THEN a[2] ELSE U16

(***************************************************************************)
(* Commands and their frames (src/bootloader.go)                           *)
(***************************************************************************)
commandGetVersion == 0
commandReadFlash == 1
commandWriteFlash == 2
commandEraseFlash == 3
commandReadEE == 4
commandWriteEE == 5
commandReadConfig == 6
commandWriteConfig == 7
commandCalculateChecksum == 8
commandReset == 9

respLengthGetVersion == 16

ResultSuccess == 1
ResultUnsupported == 255
ResultAddressError == 254

GetResponseCodeString(code) ==
    IF code = ResultSuccess THEN "success"
    ELSE IF code = ResultUnsupported THEN "unsupported"
    ELSE IF code = ResultAddressError THEN "address error"
    ELSE "invalid response code"

\* A Command value; the fields a constructor leaves out are Go's zero values.
Command(command, unlock, address, length, data, responseLength, expectsSuccessCode) ==
    [Command |-> command, UnlockSequence |-> unlock, Address |-> address,
     Length |-> length, Data |-> data,
     responseLength |-> responseLength, expectsSuccessCode |-> expectsSuccessCode]

NoUnlock == <<0, 0>>
Unlock == <<85, 170>>

NewGetVersionCommand ==
    Command(commandGetVersion, NoUnlock, U32(0), 0, <<>>, respLengthGetVersion, FALSE)
NewReadFlashCommand(address, length) ==
    Command(commandReadFlash, NoUnlock, address, length, <<>>, length, FALSE)
NewWriteFlashCommand(address, data) ==
    Command(commandWriteFlash, Unlock, address, Len(data) % U16, data, 0, TRUE)
\* NewEraseFlashCommand declaring the one-byte reply as a response.
NewEraseFlashCommand_ResponseByte(address, numRows) ==
    Command(commandEraseFlash, Unlock, address, numRows, <<>>, 1, TRUE)
NewEraseFlashCommand(address, numRows) ==
    Command(commandEraseFlash, Unlock, address, numRows, <<>>, 0, TRUE)
NewReadEECommand(address, length) ==
    Command(commandReadEE, NoUnlock, address, length, <<>>, length, FALSE)
NewWriteEECommand(address, data) ==
    Command(commandWriteEE, Unlock, address, Len(data) % U16, data, 0, TRUE)
NewReadConfigCommand(address, length) ==
    Command(commandReadConfig, NoUnlock, address, length, <<>>, length, FALSE)
NewWriteConfigCommand(address, data) ==
    Command(commandWriteConfig, Unlock, address, Len(data) % U16, data, 0, TRUE)
NewCalculateChecksumCommand(address, length) ==
    Command(commandCalculateChecksum, NoUnlock, address, length, <<>>, 2, FALSE)
NewResetCommand ==
    Command(commandReset, NoUnlock, U32(0), 0, <<>>, 0, FALSE)

\* A uint16 with its two bytes in network order.
PutUint16_BigEndian(v) == <<v \div 256, v % 256>>

\* binary.Write(buf, binary.LittleEndian, v) of a uint16 and of a uint32.
PutUint16(v) == <<v % 256, v \div 256>>
PutUint32(a) == PutUint16(a[2]) \o PutUint16(a[1])

\* Command.GetBytes.
GetBytes(c) ==
    LET Length == IF Len(c.Data) > 0 THEN Len(c.Data) % U16 ELSE c.Length
    IN  <<c.Command>> \o PutUint16(Length) \o <<c.UnlockSequence[1], c.UnlockSequence[2]>>
            \o PutUint32(c.Address) \o c.Data

\* The codec after NewSerialBootloader: no port opened, nothing exchanged.
Pending == [ok |-> FALSE, err |-> "pending", cause |-> "", position |-> 0, code |-> 0,
            reason |-> "", value |-> <<>>]

CodecNew ==
    /\ pc = "closed"
    /\ cmd = Command(0, NoUnlock, U32(0), 0, <<>>, 0, FALSE)
    /\ tx = <<>>
    /\ written = <<>>
    /\ wire = <<>>
    /\ rx = <<>>
    /\ resp = <<>>
    /\ rcap = 0
    /\ got = <<>>
    /\ sres = Pending

(***************************************************************************)
(* Data of the programming engine                                          *)
(***************************************************************************)
\* A gohex.DataSegment.
Seg(address, data) == [Address |-> address, Data |-> data]

\* The memory map of the PIC18F45K20 (README), and the same map with a
\* bootloader that ends two bytes into an erase row.
ProfileK20 ==
    [BootloaderOffset |-> U32(2048), FlashSize |-> U32(32768),
     EEPROMOffset |-> <<240, 0>>, EEPROMSize |-> U32(256),
     ConfigOffset |-> <<48, 0>>, ConfigSize |-> U32(14),
     IDOffset |-> <<32, 0>>, IDSize |-> U32(8)]
ProfileOdd == [ProfileK20 EXCEPT !.BootloaderOffset = U32(2050)]

\* PIC8Options, as far as Program reads them.
OptionsSet ==
    [ProgramEEPROM : BOOLEAN, ProgramConfig : BOOLEAN, ProgramID : BOOLEAN,
     VerifyByReading : BOOLEAN]

\* The <<profile, options>> pairs NewPIC8Programmer is called with: every
\* combination of the program flags for the PIC18F45K20 verified by reading,
\* all of the program flags set or all of them clear for the PIC18F45K20
\* verified by checksum, and all of them set for the other profile.
Constructions ==
    {<<ProfileK20, o>> : o \in {x \in OptionsSet : x.VerifyByReading}}
        \cup {<<ProfileK20, o>> : o \in {x \in OptionsSet :
                   /\ ~x.VerifyByReading
                   /\ x.ProgramEEPROM = x.ProgramConfig /\ x.ProgramConfig = x.ProgramID}}
        \cup {<<ProfileOdd, o>> : o \in {x \in OptionsSet :
                   x.ProgramEEPROM /\ x.ProgramConfig /\ x.ProgramID /\ x.VerifyByReading}}

\* The segments a hex file of the model may hold, in address order (gohex
\* returns the segments of one file sorted by address and not touching).
SegPool ==
    << Seg(U32(2049), <<170>>),             \* flash, odd length
       Seg(U32(2051), <<17, 34, 51>>),      \* flash, odd length, crosses rows
       Seg(<<32, 0>>, <<85, 102>>),         \* id
       Seg(<<48, 0>>, <<254, 255, 1>>),     \* config, holds a 0xFF
       Seg(<<64, 0>>, <<0>>),               \* in no region
       Seg(<<240, 0>>, <<119, 136, 153, 170, 187>>),  \* eeprom, longer than a row
       Seg(<<U16 - 1, U16 - 2>>, <<1, 2>>) >>  \* the last two bytes of the address space

\* How many segments the programmer stores at most, over the four sequences.
MaxSegments == 2

RECURSIVE PickSeq(_, _)
\* The segments of SegPool whose index is in S, in pool order, from index i on.
PickSeq(S, i) ==
    IF i > Len(SegPool) THEN <<>>
    ELSE IF i \in S THEN <<SegPool[i]>> \o PickSeq(S, i + 1)
    ELSE PickSeq(S, i + 1)

HexFiles == {PickSeq(S, 1) : S \in {T \in SUBSET (1 .. Len(SegPool)) : Cardinality(T) <= MaxSegments}}

\* The <<erase row size, write row size>> pairs a device of the model reports:
\* 0 and 6 are not powers of two.
RowSizes == {<<0, 4>>, <<4, 0>>, <<2, 4>>, <<4, 4>>, <<6, 6>>}

\* Out-of-range float64 to uint16 conversions are implementation-defined in Go:
\* the builds truncate an int64 intermediate (0 for +Inf and NaN on amd64) or
\* saturate it (0xFFFF on arm64).
UndefU16 == {0, U16 - 1}

ZeroInfo ==
    [VersionMinor |-> 0, VersionMajor |-> 0, MaxPacketSize |-> 0, DeviceID |-> 0,
     EraseRowSize |-> 0, WriteRowSize |-> 0, ConfigWords |-> <<0, 0, 0, 0>>]

\* What a programmer call returned: nil, an error (what names the failing
\* operation, addr is the address in the message), or a run-time panic.
Ok(op) == [op |-> op, kind |-> "ok", what |-> "", addr |-> U32(0)]
Err(op, what, addr) == [op |-> op, kind |-> "error", what |-> what, addr |-> addr]
Panic(op) == [op |-> op, kind |-> "panic", what |-> "index out of range", addr |-> U32(0)]

\* One call of a Bootloader method, as the engine makes it.
Call(name, addr, n, data) == [cmd |-> name, addr |-> addr, n |-> n, data |-> data, ok |-> TRUE]

(***************************************************************************)
(* LoadHex                                                                 *)
(***************************************************************************)
\* The closure validSegment of LoadHex, in uint32 arithmetic.
validSegment(s, start, length) ==
    /\ Le32(start, s.Address)
    /\ Le32(Add32(s.Address, ToUint32(Len(s.Data))), Add32(start, length))

\* The flash case without its pad.
PadEven_Unpadded(data) == data

\* The flash case: an odd-length segment gets one 0xFF appended.
PadEven(data) == IF Len(data) % 2 = 1 THEN Append(data, 255) ELSE data

\* The config case without its rewrite.
RewriteFF_Kept(data) == data

\* The config case: every 0xFF becomes 0.
RewriteFF(data) == [i \in 1 .. Len(data) |-> IF data[i] = 255 THEN 0 ELSE data[i]]

\* One turn of LoadHex's loop on the state st = [flash, id, config, eeprom, result].
classify(st, segment, p) ==
    IF validSegment(segment, p.BootloaderOffset, Sub32(p.FlashSize, p.BootloaderOffset))
    THEN [st EXCEPT !.flash = Append(@, Seg(segment.Address, PadEven(segment.Data)))]
    ELSE IF validSegment(segment, p.IDOffset, p.IDSize)
    THEN [st EXCEPT !.id = Append(@, segment)]
    ELSE IF validSegment(segment, p.ConfigOffset, p.ConfigSize)
    THEN [st EXCEPT !.config = Append(@, Seg(segment.Address, RewriteFF(segment.Data)))]
    ELSE IF validSegment(segment, p.EEPROMOffset, p.EEPROMSize)
    THEN [st EXCEPT !.eeprom = Append(@, segment)]
    ELSE [st EXCEPT !.result = Err("LoadHex", "invalid data segment", segment.Address)]

RECURSIVE loadSegments(_, _, _)
\* LoadHex's loop: it returns at the first segment that fits no region.
loadSegments(st, segments, p) ==
    IF segments = <<>> \/ st.result.kind # "ok" THEN st
    ELSE loadSegments(classify(st, Head(segments), p), Tail(segments), p)

\* LoadHex starting each time from empty sequences.
LoadHex_Replacing(segments) ==
    /\ Len(flash) + Len(id) + Len(config) + Len(eeprom) + Len(segments) <= MaxSegments
    /\ LET st == loadSegments([flash |-> <<>>, id |-> <<>>, config |-> <<>>,
                               eeprom |-> <<>>, result |-> Ok("LoadHex")],
                              segments, profile)
       IN  /\ flash' = st.flash
           /\ id' = st.id
           /\ config' = st.config
           /\ eeprom' = st.eeprom
           /\ result' = st.result
           /\ succeeded' = IF st.result.kind = "ok" THEN succeeded \cup {"LoadHex"} ELSE succeeded
    /\ input' = segments
    /\ trace' = <<>>
    /\ UNCHANGED <<profile, options, info>>
    /\ UNCHANGED codecVars

\* LoadHex of a hex file that parses to `segments`.
LoadHex(segments) ==
    /\ Len(flash) + Len(id) + Len(config) + Len(eeprom) + Len(segments) <= MaxSegments
    /\ LET st == loadSegments([flash |-> flash, id |-> id, config |-> config,
                               eeprom |-> eeprom, result |-> Ok("LoadHex")],
                              segments, profile)
       IN  /\ flash' = st.flash
           /\ id' = st.id
           /\ config' = st.config
           /\ eeprom' = st.eeprom
           /\ result' = st.result
           /\ succeeded' = IF st.result.kind = "ok" THEN succeeded \cup {"LoadHex"} ELSE succeeded
    /\ input' = segments
    /\ trace' = <<>>
    /\ UNCHANGED <<profile, options, info>>
    /\ UNCHANGED codecVars

\* LoadHex of input the hex parser rejects: nothing is stored.
LoadHexBad ==
    /\ result' = Err("LoadHex", "parse", U32(0))
    /\ input' = <<>>
    /\ trace' = <<>>
    /\ UNCHANGED <<profile, options, info, flash, id, config, eeprom, succeeded>>
    /\ UNCHANGED codecVars

(***************************************************************************)
(* Connect                                                                 *)
(***************************************************************************)
\* binary.LittleEndian.Uint16 of the two bytes of data from (1-based) index i.
LittleEndianUint16(data, i) == data[i] + 256 * data[i + 1]

\* ParseGetVersionResponse taking the device id from the bytes 4 and 5.
ParseGetVersionResponse_DeviceIDAt4(data) ==
    IF Len(data) # 16 THEN [ok |-> FALSE, info |-> ZeroInfo]
    ELSE [ok |-> TRUE,
          info |-> [VersionMinor |-> data[1], VersionMajor |-> data[2],
                    MaxPacketSize |-> LittleEndianUint16(data, 3),
                    DeviceID |-> LittleEndianUint16(data, 5),
                    EraseRowSize |-> data[11], WriteRowSize |-> data[12],
                    ConfigWords |-> SubSeq(data, 13, 16)]]

\* ParseGetVersionResponse: a record [ok, info].
ParseGetVersionResponse(data) ==
    IF Len(data) # 16 THEN [ok |-> FALSE, info |-> ZeroInfo]
    ELSE [ok |-> TRUE,
          info |-> [VersionMinor |-> data[1], VersionMajor |-> data[2],
                    MaxPacketSize |-> LittleEndianUint16(data, 3),
                    DeviceID |-> LittleEndianUint16(data, 7),
                    EraseRowSize |-> data[11], WriteRowSize |-> data[12],
                    ConfigWords |-> SubSeq(data, 13, 16)]]

\* A GetVersion response reporting erase row size e and write row size w.
VersionResponse(e, w) == <<8, 0, 0, 1, 0, 0, 64, 32, 0, 0, e, w, 1, 2, 3, 4>>

\* Connect asking for the version although bootloader.Connect failed.
ConnectOpenFails_VersionAsked ==
    /\ trace' = <<[Call("Connect", U32(0), 0, <<>>) EXCEPT !.ok = FALSE],
                  [Call("GetVersion", U32(0), 0, <<>>) EXCEPT !.ok = FALSE]>>
    /\ info' = ZeroInfo
    /\ result' = Err("Connect", "failed to open bootloader", U32(0))
    /\ input' = <<>>
    /\ UNCHANGED <<profile, options, flash, id, config, eeprom, succeeded>>
    /\ UNCHANGED codecVars

\* Connect when bootloader.Connect fails: GetVersion is not called.
ConnectOpenFails ==
    /\ trace' = <<[Call("Connect", U32(0), 0, <<>>) EXCEPT !.ok = FALSE]>>
    /\ result' = Err("Connect", "failed to open bootloader", U32(0))
    /\ input' = <<>>
    /\ UNCHANGED <<profile, options, info, flash, id, config, eeprom, succeeded>>
    /\ UNCHANGED codecVars

\* Connect when GetVersion fails: p.info is assigned the zero VersionInfo it returns.
ConnectVersionFails ==
    /\ trace' = <<Call("Connect", U32(0), 0, <<>>),
                  [Call("GetVersion", U32(0), 0, <<>>) EXCEPT !.ok = FALSE]>>
    /\ info' = ZeroInfo
    /\ result' = Err("Connect", "failed to get device info", U32(0))
    /\ input' = <<>>
    /\ UNCHANGED <<profile, options, flash, id, config, eeprom, succeeded>>
    /\ UNCHANGED codecVars

\* Connect when both succeed and the device reports row sizes e and w; the
\* GetVersion entry of the trace carries the response the device sent.
Connect(e, w) ==
    /\ trace' = <<Call("Connect", U32(0), 0, <<>>),
                  Call("GetVersion", U32(0), 0, VersionResponse(e, w))>>
    /\ info' = ParseGetVersionResponse(VersionResponse(e, w)).info
    /\ result' = Ok("Connect")
    /\ succeeded' = succeeded \cup {"Connect"}
    /\ input' = <<>>
    /\ UNCHANGED <<profile, options, flash, id, config, eeprom>>
    /\ UNCHANGED codecVars

(***************************************************************************)
(* Program                                                                 *)
(***************************************************************************)
\* uint16(math.Ceil(float64(d) / float64(rowSize))) for a uint32 d and an int
\* rowSize in 0..255. The division by 0 gives +Inf or NaN and a quotient above
\* 0xFFFF is out of range: both conversions are implementation-defined, u is
\* what the build makes of them.
ceilRows(d, rowSize, u) ==
    IF rowSize = 0 THEN u
    ELSE LET qh == d[1] \div rowSize
             low == (d[1] % rowSize) * U16 + d[2]
             q == low \div rowSize + (IF low % rowSize = 0 THEN 0 ELSE 1)
         IN  IF qh = 0 /\ q < U16 THEN q ELSE u

\* The EraseFlash call eraseSegments makes for one segment.
eraseCall(segment, eraseRowSize, u) ==
    LET start == AndNot32(segment.Address, ToUint32(eraseRowSize - 1))
        num == ceilRows(Sub32(Add32(segment.Address, ToUint32(Len(segment.Data))), start),
                        eraseRowSize, u)
    IN  Call("EraseFlash", start, num, <<>>)

\* issue with the error of a failing call dropped, so that the caller goes on.
issue_ErrorDropped(st, call, what, failAt) ==
    IF Len(st.trace) + 1 = failAt
    THEN [st EXCEPT !.trace = Append(@, [call EXCEPT !.ok = FALSE])]
    ELSE [st EXCEPT !.trace = Append(@, call)]

\* The state of a running programmer call: the calls made so far and the
\* result, "ok" while it has not returned.
\* issue makes one Bootloader call; the device fails the call number failAt.
issue(st, call, what, failAt) ==
    IF Len(st.trace) + 1 = failAt
    THEN [trace |-> Append(st.trace, [call EXCEPT !.ok = FALSE]),
          result |-> Err(st.result.op, what, call.addr)]
    ELSE [st EXCEPT !.trace = Append(@, call)]

RECURSIVE eraseSegments(_, _, _, _, _, _)
\* eraseSegments, returning at the first failing EraseFlash.
eraseSegments(st, segments, eraseRowSize, u, what, failAt) ==
    IF segments = <<>> \/ st.result.kind # "ok" THEN st
    ELSE eraseSegments(issue(st, eraseCall(Head(segments), eraseRowSize, u), what, failAt),
                       Tail(segments), eraseRowSize, u, what, failAt)

\* The first loop's body with the blank block filled with zeros.
putByte_ZeroFilled(b, byteAddress, data, writeRowSize) ==
    LET rowAlignedAddress == AndNot32(byteAddress, ToUint32(writeRowSize - 1))
        old == IF rowAlignedAddress \in DOMAIN b.blocks
               THEN b.blocks[rowAlignedAddress]
               ELSE [i \in 1 .. writeRowSize |-> 0]
        index == AsIndex(Sub32(byteAddress, rowAlignedAddress))
    IN  IF b.panic THEN b
        ELSE IF index >= writeRowSize THEN [b EXCEPT !.panic = TRUE]
        ELSE [b EXCEPT !.blocks =
                [r \in DOMAIN b.blocks \cup {rowAlignedAddress} |->
                    IF r = rowAlignedAddress THEN [old EXCEPT ![index + 1] = data]
                    ELSE b.blocks[r]]]

\* The first loop of writeSegments, one byte: b = [panic, blocks], blocks the
\* map from row address to block.
putByte(b, byteAddress, data, writeRowSize) ==
    LET rowAlignedAddress == AndNot32(byteAddress, ToUint32(writeRowSize - 1))
        old == IF rowAlignedAddress \in DOMAIN b.blocks
               THEN b.blocks[rowAlignedAddress]
               ELSE [i \in 1 .. writeRowSize |-> 255]
        index == AsIndex(Sub32(byteAddress, rowAlignedAddress))
    IN  IF b.panic THEN b
        ELSE IF index >= writeRowSize THEN [b EXCEPT !.panic = TRUE]
        ELSE [b EXCEPT !.blocks =
                [r \in DOMAIN b.blocks \cup {rowAlignedAddress} |->
                    IF r = rowAlignedAddress THEN [old EXCEPT ![index + 1] = data]
                    ELSE b.blocks[r]]]

RECURSIVE putSegment(_, _, _, _)
\* The bytes of one segment from (1-based) index i on.
putSegment(b, segment, i, writeRowSize) ==
    IF i > Len(segment.Data) THEN b
    ELSE putSegment(putByte(b, Add32(segment.Address, ToUint32(i - 1)), segment.Data[i],
                            writeRowSize),
                    segment, i + 1, writeRowSize)

RECURSIVE buildBlocks(_, _, _)
buildBlocks(b, segments, writeRowSize) ==
    IF segments = <<>> THEN b
    ELSE buildBlocks(putSegment(b, Head(segments), 1, writeRowSize), Tail(segments), writeRowSize)

\* The map writeSegments has built when its first loop ends.
blocksOf(segments, writeRowSize) ==
    buildBlocks([panic |-> FALSE, blocks |-> [r \in {} |-> <<>>]], segments, writeRowSize)

\* The orders in which Go may range over a map with the keys S.
Orders(S) ==
    {o \in [1 .. Cardinality(S) -> S] : \A i, j \in 1 .. Cardinality(S) : i # j => o[i] # o[j]}

RECURSIVE writeBlocks(_, _, _, _, _, _, _)
\* The second loop of writeSegments over the rows order[i..], returning at the
\* first failing write.
writeBlocks(st, blocks, order, i, name, what, failAt) ==
    IF i > Len(order) \/ st.result.kind # "ok" THEN st
    ELSE writeBlocks(issue(st, Call(name, order[i], 0, blocks[order[i]]), what, failAt),
                     blocks, order, i + 1, name, what, failAt)

\* writeSegments with writeFunc the Bootloader method `name`. b is the map its
\* first loop built, blocksOf(segments, writeRowSize); order is the order in
\* which the range over the map yields its rows.
writeSegments(st, b, order, name, what, failAt) ==
    IF st.result.kind # "ok" THEN st
    ELSE IF b.panic THEN [st EXCEPT !.result = Panic(st.result.op)]
    ELSE writeBlocks(st, b.blocks, order, 1, name, what, failAt)

\* The rows of the map b (none when building it panicked).
rowsOf(b) == IF b.panic THEN {} ELSE DOMAIN b.blocks

\* Program with the commented-out erase of the config segments put back.
program_ConfigErased(maps, ord, u, failAt) ==
    LET E == info.EraseRowSize
        s0 == [trace |-> <<>>, result |-> Ok("Program")]
        s1 == eraseSegments(s0, flash, E, u, "failed to erase segment", failAt)
        s2 == writeSegments(s1, maps.flash, ord.flash, "WriteFlash",
                            "failed to write flash", failAt)
        s3 == IF options.ProgramEEPROM
              THEN writeSegments(s2, maps.eeprom, ord.eeprom, "WriteEE",
                                 "failed to write eeprom", failAt)
              ELSE s2
        s4 == IF options.ProgramConfig
              THEN writeSegments(
                       eraseSegments(s3, config, E, u, "failed to erase config segment", failAt),
                       maps.config, ord.config, "WriteConfig",
                       "failed to write config", failAt)
              ELSE s3
        s5 == IF options.ProgramID
              THEN writeSegments(
                       eraseSegments(s4, id, E, u, "failed to erase id segment", failAt),
                       maps.id, ord.id, "WriteFlash", "failed to write id", failAt)
              ELSE s4
    IN  s5

\* pic8Programmer.Program: the final [trace, result]. maps holds, per region,
\* the block map of its segments and ord the order of the range over it.
program(maps, ord, u, failAt) ==
    LET E == info.EraseRowSize
        s0 == [trace |-> <<>>, result |-> Ok("Program")]
        s1 == eraseSegments(s0, flash, E, u, "failed to erase segment", failAt)
        s2 == writeSegments(s1, maps.flash, ord.flash, "WriteFlash",
                            "failed to write flash", failAt)
        s3 == IF options.ProgramEEPROM
              THEN writeSegments(s2, maps.eeprom, ord.eeprom, "WriteEE",
                                 "failed to write eeprom", failAt)
              ELSE s2
        s4 == IF options.ProgramConfig
              THEN writeSegments(s3, maps.config, ord.config, "WriteConfig",
                                 "failed to write config", failAt)
              ELSE s3
        s5 == IF options.ProgramID
              THEN writeSegments(
                       eraseSegments(s4, id, E, u, "failed to erase id segment", failAt),
                       maps.id, ord.id, "WriteFlash", "failed to write id", failAt)
              ELSE s4
    IN  s5

\* The block maps of the four regions at the cached write row size.
ProgramMaps ==
    [flash |-> blocksOf(flash, info.WriteRowSize),
     eeprom |-> blocksOf(eeprom, info.WriteRowSize),
     config |-> blocksOf(config, info.WriteRowSize),
     id |-> blocksOf(id, info.WriteRowSize)]

\* The orders Program's map ranges may take (a region that is not programmed
\* has no map).
ProgramOrders(maps) ==
    [flash : Orders(rowsOf(maps.flash)),
     eeprom : Orders(IF options.ProgramEEPROM THEN rowsOf(maps.eeprom) ELSE {}),
     config : Orders(IF options.ProgramConfig THEN rowsOf(maps.config) ELSE {}),
     id : Orders(IF options.ProgramID THEN rowsOf(maps.id) ELSE {})]

\* Program, with the device failing call number failAt (0: none fails).
Program ==
    LET maps == ProgramMaps
    IN  \E ord \in ProgramOrders(maps),
           u \in (IF info.EraseRowSize = 0 THEN UndefU16 ELSE {0}) :
            LET full == program(maps, ord, u, 0)
            IN  \E failAt \in 0 .. Len(full.trace) :
                    LET st == IF failAt = 0 THEN full ELSE program(maps, ord, u, failAt)
                    IN  /\ trace' = st.trace
                        /\ result' = st.result
                        /\ input' = <<>>
                        /\ UNCHANGED <<profile, options, info, flash, id, config, eeprom,
                                        succeeded>>
                        /\ UNCHANGED codecVars

(***************************************************************************)
(* Verify                                                                  *)
(***************************************************************************)
\* The error of a failing Verify: `what` names the region, cause the failure
\* (the read or checksum call failed, or the values differ), addr is the
\* address in the message, expected and read are the two values of a mismatch.
VerifyErr(op, what, cause, addr, expected, read) ==
    [op |-> op, kind |-> "error", what |-> what, addr |-> addr,
     cause |-> cause, expected |-> expected, read |-> read]

\* A call that has not returned: its loop makes the same call for ever.
NoReturn(op) == [op |-> op, kind |-> "no return", what |-> "", addr |-> U32(0)]

\* What the device does to one call of a Verify: call number `at` (0: none)
\* fails, or returns the bytes at the offsets in diff changed.
Device(at, fail, diff) == [at |-> at, fail |-> fail, diff |-> diff]

\* The offsets (from 0) at which a device of the model changes the data read.
DiffSets == {{0}, {1, 2}}

Devices(n) ==
    {Device(0, FALSE, {})}
        \cup {Device(at, TRUE, {}) : at \in 1 .. n}
        \cup {Device(at, FALSE, D) : at \in 1 .. n, D \in DiffSets}

\* The bytes read for `chunk` from a device that changes those at the offsets in diff.
Garble(chunk, diff) ==
    [i \in 1 .. Len(chunk) |-> IF (i - 1) \in diff THEN (chunk[i] + 1) % 256 ELSE chunk[i]]

\* The comparison of the first byte alone.
compare_FirstByteOnly(data, chunk, i) ==
    IF data = <<>> THEN 0
    ELSE IF chunk = <<>> THEN -1
    ELSE IF data[1] # chunk[1] THEN 1
    ELSE 0

RECURSIVE compare(_, _, _)
\* The loop `for i := range data` from (1-based) index i on: 0 when it ends
\* without a difference, the index of the first difference, -1 when chunk[i]
\* is out of range.
compare(data, chunk, i) ==
    IF i > Len(data) THEN 0
    ELSE IF i > Len(chunk) THEN -1
    ELSE IF data[i] # chunk[i] THEN i
    ELSE compare(data, chunk, i + 1)

\* One turn of the inner loop of verifySegmentsByReading: the read of one chunk
\* and its comparison.
verifyChunk(st, name, addr, chunk, what, dev) ==
    LET call == Call(name, addr, Len(chunk) % U16, <<>>)
        hit == Len(st.trace) + 1 = dev.at
        data == IF hit THEN Garble(chunk, dev.diff) ELSE chunk
        d == compare(data, chunk, 1)
        tr == Append(st.trace, [call EXCEPT !.data = data])
    IN  IF hit /\ dev.fail
        THEN [trace |-> Append(st.trace, [call EXCEPT !.ok = FALSE]),
              result |-> VerifyErr(st.result.op, what, "failed to read flash", addr, 0, 0)]
        ELSE IF d = 0 THEN [st EXCEPT !.trace = tr]
        ELSE IF d < 0 THEN [trace |-> tr, result |-> Panic(st.result.op)]
        ELSE [trace |-> tr,
              result |-> VerifyErr(st.result.op, what, "mismatch",
                                   Add32(addr, ToUint32(d - 1)), chunk[d], data[d])]

RECURSIVE verifySegment(_, _, _, _, _, _, _)
\* The inner loop of verifySegmentsByReading from `offset` on. With a write row
\* size of 0 neither addr nor offset advances: the loop reads 0 bytes at the
\* segment address until a read fails.
verifySegment(st, segment, offset, writeRowSize, name, what, dev) ==
    IF st.result.kind # "ok" \/ offset >= Len(segment.Data) THEN st
    ELSE IF writeRowSize = 0
    THEN LET s1 == verifyChunk(st, name, segment.Address, <<>>, what, dev)
         IN  IF s1.result.kind = "ok" THEN [s1 EXCEPT !.result = NoReturn(st.result.op)] ELSE s1
    ELSE LET end == IF Len(segment.Data) - offset > writeRowSize
                    THEN offset + writeRowSize ELSE Len(segment.Data)
         IN  verifySegment(verifyChunk(st, name, Add32(segment.Address, ToUint32(offset)),
                                       SubSeq(segment.Data, offset + 1, end), what, dev),
                           segment, offset + writeRowSize, writeRowSize, name, what, dev)

RECURSIVE verifySegmentsByReading(_, _, _, _, _, _)
\* verifySegmentsByReading with readFunc the Bootloader method `name`.
verifySegmentsByReading(st, segments, writeRowSize, name, what, dev) ==
    IF segments = <<>> \/ st.result.kind # "ok" THEN st
    ELSE verifySegmentsByReading(
             verifySegment(st, Head(segments), 0, writeRowSize, name, what, dev),
             Tail(segments), writeRowSize, name, what, dev)

\* verifyByReading with the gate of the eeprom segments left out.
verifyByReading_EEPROMAlways(dev) ==
    LET W == info.WriteRowSize
        s0 == [trace |-> <<>>, result |-> Ok("Verify")]
        s1 == verifySegmentsByReading(s0, flash, W, "ReadFlash", "failed to verify flash", dev)
        s2 == verifySegmentsByReading(s1, eeprom, W, "ReadEE", "failed to verify eeprom", dev)
        s3 == IF options.ProgramConfig
              THEN verifySegmentsByReading(s2, config, W, "ReadConfig",
                                           "failed to verify config", dev)
              ELSE s2
        s4 == IF options.ProgramID
              THEN verifySegmentsByReading(s3, id, W, "ReadFlash", "failed to verify id", dev)
              ELSE s3
    IN  s4

\* pic8Programmer.verifyByReading: the final [trace, result].
verifyByReading(dev) ==
    LET W == info.WriteRowSize
        s0 == [trace |-> <<>>, result |-> Ok("Verify")]
        s1 == verifySegmentsByReading(s0, flash, W, "ReadFlash", "failed to verify flash", dev)
        s2 == IF options.ProgramEEPROM
              THEN verifySegmentsByReading(s1, eeprom, W, "ReadEE",
                                           "failed to verify eeprom", dev)
              ELSE s1
        s3 == IF options.ProgramConfig
              THEN verifySegmentsByReading(s2, config, W, "ReadConfig",
                                           "failed to verify config", dev)
              ELSE s2
        s4 == IF options.ProgramID
              THEN verifySegmentsByReading(s3, id, W, "ReadFlash", "failed to verify id", dev)
              ELSE s3
    IN  s4

\* A chunk size one byte larger, and odd.
maxChecksumChunk_Odd == U16 - 1

\* The largest chunk verifySegmentsByChecksum sums in one call.
maxChecksumChunk == U16 - 2

RECURSIVE wordsum(_, _, _)
\* uint16(chunk[i]) + uint16(chunk[i+1])<<8 summed modulo 2^16 over the words
\* lo .. hi of chunk (word w is the bytes 2w-1 and 2w). The sum is split in
\* halves: addition modulo 2^16 gives the loop's value in any grouping.
wordsum(chunk, lo, hi) ==
    IF lo > hi THEN 0
    ELSE IF lo = hi THEN chunk[2 * lo - 1] + 256 * chunk[2 * lo]
    ELSE LET mid == (lo + hi) \div 2
         IN  (wordsum(chunk, lo, mid) + wordsum(chunk, mid + 1, hi)) % U16

\* The local checksum of chunk from (1-based) index i on, two bytes at a time:
\* [panic, sum]; chunk[i+1] is out of range at the last byte of an odd chunk.
localsum(chunk, i) ==
    IF (Len(chunk) - i + 1) % 2 = 1 THEN [panic |-> TRUE, sum |-> 0]
    ELSE [panic |-> FALSE, sum |-> wordsum(chunk, (i + 1) \div 2, Len(chunk) \div 2)]

\* The checksum decoded with the high byte first.
decodeChecksum_BigEndian(r) == 256 * r[1] + r[2]

\* serialBootloader.CalculateChecksum: the checksum decoded from the response.
decodeChecksum(r) == r[1] + 256 * r[2]

\* The two bytes a device answers CalculateChecksum with for the sum s.
ChecksumResponse(s) == <<s % 256, s \div 256>>

\* One turn of the inner loop of verifySegmentsByChecksum; a device that
\* changes data answers with a checksum that is off by one. The entry of the
\* trace carries the response of the device.
checksumChunk(st, addr, chunk, dev) ==
    LET call == Call("CalculateChecksum", addr, Len(chunk) % U16, <<>>)
        hit == Len(st.trace) + 1 = dev.at
        local == localsum(chunk, 1)
        answer == ChecksumResponse(IF hit /\ dev.diff # {} THEN (local.sum + 1) % U16
                                   ELSE local.sum)
        picsum == decodeChecksum(answer)
        tr == Append(st.trace, [call EXCEPT !.data = answer])
    IN  IF hit /\ dev.fail
        THEN [trace |-> Append(st.trace, [call EXCEPT !.ok = FALSE]),
              result |-> VerifyErr(st.result.op, "failed to verify flash",
                                   "failed to calculate checksum", addr, 0, 0)]
        ELSE IF local.panic THEN [trace |-> tr, result |-> Panic(st.result.op)]
        ELSE IF picsum # local.sum
        THEN [trace |-> tr,
              result |-> VerifyErr(st.result.op, "failed to verify flash",
                                   "checksum mismatch", addr, local.sum, picsum)]
        ELSE [st EXCEPT !.trace = tr]

RECURSIVE checksumSegment(_, _, _, _)
\* The inner loop of verifySegmentsByChecksum from `offset` on.
checksumSegment(st, segment, offset, dev) ==
    IF st.result.kind # "ok" \/ offset >= Len(segment.Data) THEN st
    ELSE LET end == IF Len(segment.Data) - offset > maxChecksumChunk
                    THEN offset + maxChecksumChunk ELSE Len(segment.Data)
         IN  checksumSegment(checksumChunk(st, Add32(segment.Address, ToUint32(offset)),
                                           SubSeq(segment.Data, offset + 1, end), dev),
                             segment, offset + maxChecksumChunk, dev)

RECURSIVE verifySegmentsByChecksum(_, _, _)
verifySegmentsByChecksum(st, segments, dev) ==
    IF segments = <<>> \/ st.result.kind # "ok" THEN st
    ELSE verifySegmentsByChecksum(checksumSegment(st, Head(segments), 0, dev),
                                  Tail(segments), dev)

\* pic8Programmer.verifyByChecksum: only the flash segments are summed.
verifyByChecksum(dev) ==
    verifySegmentsByChecksum([trace |-> <<>>, result |-> Ok("Verify")], flash, dev)

\* pic8Programmer.Verify: the final [trace, result].
verify(dev) == IF options.VerifyByReading THEN verifyByReading(dev) ELSE verifyByChecksum(dev)

\* Verify, with a device that fails or garbles one of its calls, or none.
Verify ==
    \E dev \in Devices(Len(verify(Device(0, FALSE, {})).trace)) :
        LET st == verify(dev)
        IN  /\ trace' = st.trace
            /\ result' = st.result
            /\ input' = <<>>
            /\ UNCHANGED <<profile, options, info, flash, id, config, eeprom, succeeded>>
            /\ UNCHANGED codecVars

(***************************************************************************)
(* Reset                                                                   *)
(***************************************************************************)
\* Reset forgetting the device info, as a Reset that ends the connection might.
Reset_InfoCleared ==
    \E fails \in BOOLEAN :
        /\ trace' = <<[Call("Reset", U32(0), 0, <<>>) EXCEPT !.ok = ~fails]>>
        /\ result' = IF fails THEN Err("Reset", "reset failed", U32(0)) ELSE Ok("Reset")
        /\ info' = ZeroInfo
        /\ input' = <<>>
        /\ UNCHANGED <<profile, options, flash, id, config, eeprom, succeeded>>
        /\ UNCHANGED codecVars

\* pic8Programmer.Reset: the error of Bootloader.Reset, or nil.
Reset ==
    \E fails \in BOOLEAN :
        /\ trace' = <<[Call("Reset", U32(0), 0, <<>>) EXCEPT !.ok = ~fails]>>
        /\ result' = IF fails THEN Err("Reset", "reset failed", U32(0)) ELSE Ok("Reset")
        /\ input' = <<>>
        /\ UNCHANGED <<profile, options, info, flash, id, config, eeprom, succeeded>>
        /\ UNCHANGED codecVars

(***************************************************************************)
(* The programming engine                                                  *)
(***************************************************************************)
Init ==
    /\ \E c \in Constructions : profile = c[1] /\ options = c[2]
    /\ info = ZeroInfo
    /\ flash = <<>>
    /\ id = <<>>
    /\ config = <<>>
    /\ eeprom = <<>>
    /\ input = <<>>
    /\ succeeded = {}
    /\ trace = <<>>
    /\ result = Ok("NewPIC8Programmer")
    /\ CodecNew

Next ==
    \/ \E segments \in HexFiles : LoadHex(segments)
    \/ LoadHexBad
    \/ ConnectOpenFails
    \/ ConnectVersionFails
    \/ \E ew \in RowSizes : Connect(ew[1], ew[2])
    \/ Program
    \/ Verify
    \/ Reset

Spec == Init /\ [][Next]_vars

(***************************************************************************)
(* Checksum verification of segments longer than one chunk                 *)
(***************************************************************************)
\* A device with 256 KiB of flash, verified by checksum.
ProfileBig == [ProfileK20 EXCEPT !.FlashSize = <<4, 0>>]

\* The bytes of a long segment.
Filler(n) == [i \in 1 .. n |-> i % 251]

\* The flash segments of the hex files verified by checksum: one of 65535
\* bytes, odd and a byte longer than a chunk, and three short ones.
BigPool ==
    << Seg(U32(4096), Filler(U16 - 1)),
       Seg(<<2, 0>>, <<9, 8>>),
       Seg(<<3, 0>>, <<1, 2, 3>>),
       Seg(<<3, 16>>, <<255, 255, 4, 5>>) >>

\* The hex files: one or two segments of the pool, in address order.
BigFiles ==
    {<<BigPool[i]>> : i \in 1 .. Len(BigPool)}
        \cup {<<BigPool[p[1]], BigPool[p[2]]>> :
                  p \in {q \in (1 .. Len(BigPool)) \X (1 .. Len(BigPool)) : q[1] < q[2]}}

InitChecksum ==
    /\ profile = ProfileBig
    /\ options = [ProgramEEPROM |-> TRUE, ProgramConfig |-> TRUE, ProgramID |-> TRUE,
                  VerifyByReading |-> FALSE]
    /\ info = ZeroInfo
    /\ flash = <<>>
    /\ id = <<>>
    /\ config = <<>>
    /\ eeprom = <<>>
    /\ input = <<>>
    /\ succeeded = {}
    /\ trace = <<>>
    /\ result = Ok("NewPIC8Programmer")
    /\ CodecNew

NextChecksum ==
    \/ \E segments \in BigFiles : LoadHex(segments)
    \/ Verify

SpecChecksum == InitChecksum /\ [][NextChecksum]_vars

(***************************************************************************)
(* eraseSegments on segments of many rows                                  *)
(***************************************************************************)
\* The segments of the hex files whose flash is erased: the two of the
\* README's walk-through and two of BigPool, the long one among them.
ErasePool == <<Seg(U32(2049), <<1, 2>>), Seg(U32(2111), <<1, 2, 3>>), BigPool[1], BigPool[2]>>

EraseFiles ==
    {<<ErasePool[i]>> : i \in 1 .. Len(ErasePool)}
        \cup {<<ErasePool[p[1]], ErasePool[p[2]]>> :
                  p \in {q \in (1 .. Len(ErasePool)) \X (1 .. Len(ErasePool)) : q[1] < q[2]}}

\* The programmer after a LoadHex of one of the files and a Connect to a
\* device whose erase row size is 1, 2, 4 or 64.
InitErase ==
    /\ profile = ProfileBig
    /\ options = [ProgramEEPROM |-> TRUE, ProgramConfig |-> TRUE, ProgramID |-> TRUE,
                  VerifyByReading |-> FALSE]
    /\ \E e \in {1, 2, 4, 64} :
           /\ info = ParseGetVersionResponse(VersionResponse(e, 64)).info
           /\ trace = <<Call("Connect", U32(0), 0, <<>>),
                        Call("GetVersion", U32(0), 0, VersionResponse(e, 64))>>
    /\ \E file \in EraseFiles :
           flash = loadSegments([flash |-> <<>>, id |-> <<>>, config |-> <<>>, eeprom |-> <<>>,
                                 result |-> Ok("LoadHex")], file, ProfileBig).flash
    /\ id = <<>>
    /\ config = <<>>
    /\ eeprom = <<>>
    /\ input = <<>>
    /\ succeeded = {"LoadHex", "Connect"}
    /\ result = Ok("Connect")
    /\ CodecNew

\* The first step of Program: eraseSegments over the flash segments, with the
\* device failing call number failAt (0: none fails).
EraseSegments ==
    \E u \in UndefU16, failAt \in 0 .. Len(flash) :
        LET st == eraseSegments([trace |-> <<>>, result |-> Ok("Program")], flash,
                                info.EraseRowSize, u, "failed to erase segment", failAt)
        IN  /\ trace' = st.trace
            /\ result' = st.result
            /\ UNCHANGED <<profile, options, info, flash, id, config, eeprom, succeeded, input>>
            /\ UNCHANGED codecVars

SpecErase == InitErase /\ [][EraseSegments]_vars

(***************************************************************************)
(* Program over segments that overlap                                      *)
(***************************************************************************)
\* Flash segments of two hex files loaded one after the other: LoadHex appends,
\* so the second file's segments may cover addresses the first file's cover
\* (0x801 <<1>> is stored as 0x801..0x802, which 0x802 <<2, 3>> covers too).
WritePool == <<Seg(U32(2049), <<1>>), Seg(U32(2050), <<2, 3>>), Seg(U32(2056), <<4, 5>>)>>

WriteFiles ==
    {<<WritePool[i]>> : i \in 1 .. 3} \cup {<<WritePool[i], WritePool[3]>> : i \in 1 .. 2}

\* The programmer after two LoadHex calls and a Connect to a device whose
\* write row size is 2, 4 or 8.
InitWrite ==
    /\ profile = ProfileK20
    /\ options = [ProgramEEPROM |-> TRUE, ProgramConfig |-> TRUE, ProgramID |-> TRUE,
                  VerifyByReading |-> TRUE]
    /\ \E w \in {2, 4, 8} :
           /\ info = ParseGetVersionResponse(VersionResponse(64, w)).info
           /\ trace = <<Call("Connect", U32(0), 0, <<>>),
                        Call("GetVersion", U32(0), 0, VersionResponse(64, w))>>
    /\ \E first \in WriteFiles, second \in WriteFiles :
           flash = loadSegments(
                       loadSegments([flash |-> <<>>, id |-> <<>>, config |-> <<>>,
                                     eeprom |-> <<>>, result |-> Ok("LoadHex")],
                                    first, ProfileK20),
                       second, ProfileK20).flash
    /\ id = <<>>
    /\ config = <<>>
    /\ eeprom = <<>>
    /\ input = <<>>
    /\ succeeded = {"LoadHex", "Connect"}
    /\ result = Ok("Connect")
    /\ CodecNew

SpecWrite == InitWrite /\ [][Program]_vars

(***************************************************************************)
(* Claims about Program                                                    *)
(***************************************************************************)
\* Whether byte address a lies in [start, start + size), size below 2^24.
ByteIn(a, start, size) ==
    LET d == Sub32(a, start)
    IN  d[1] < 256 /\ d[1] * U16 + d[2] < size

\* The number of bytes command c erases or writes at the cached row sizes.
BytesCovered(c) ==
    IF c.cmd = "EraseFlash" THEN c.n * info.EraseRowSize ELSE Len(c.data)

\* The row addresses holding at least one byte of the segments, for row size w.
RowSet(segments, w) ==
    UNION {{AndNot32(Add32(segments[k].Address, ToUint32(i - 1)), ToUint32(w - 1)) :
                i \in 1 .. Len(segments[k].Data)} : k \in 1 .. Len(segments)}

\* The row sizes that are non-zero powers of two.
IsPow2(n) == n \in {1, 2, 4, 8, 16, 32, 64, 128}

\* C1 (as claimed, for the row sizes that are powers of two): no EraseFlash or
\* WriteFlash command of Program covers a byte address below bootloader_offset.
C1_NothingBelowBootloader ==
    (result.op = "Program" /\ IsPow2(info.EraseRowSize) /\ IsPow2(info.WriteRowSize)) =>
        \A i \in 1 .. Len(trace) :
            trace[i].cmd \in {"EraseFlash", "WriteFlash"} =>
                ~(BytesCovered(trace[i]) > 0 /\ Lt32(trace[i].addr, profile.BootloaderOffset))

\* n copies of x.
Rep(x, n) == [i \in 1 .. n |-> x]

\* The command names of a Program run in which nothing fails, from the stored
\* segments, the cached write row size and the option flags.
ExpectedNames ==
    LET W == info.WriteRowSize
    IN  Rep("EraseFlash", Len(flash))
        \o Rep("WriteFlash", Cardinality(RowSet(flash, W)))
        \o (IF options.ProgramEEPROM THEN Rep("WriteEE", Cardinality(RowSet(eeprom, W))) ELSE <<>>)
        \o (IF options.ProgramConfig THEN Rep("WriteConfig", Cardinality(RowSet(config, W))) ELSE <<>>)
        \o (IF options.ProgramID
            THEN Rep("EraseFlash", Len(id)) \o Rep("WriteFlash", Cardinality(RowSet(id, W)))
            ELSE <<>>)

\* The addresses of the commands trace[from + 1 .. from + n].
AddrsOf(from, n) == {trace[i].addr : i \in from + 1 .. from + n}

\* C2: a Program run that returns nil issued, in this order, one EraseFlash per
\* flash segment, one WriteFlash per flash row, then if program_eeprom one
\* WriteEE per eeprom row, then if program_config one WriteConfig per config row
\* (and no erase for config), then if program_id one EraseFlash per id segment
\* and one WriteFlash per id row; a region whose flag is false gets no command;
\* and every Program run, however it ends, issued a prefix of that sequence.
C2_CommandOrder ==
    result.op = "Program" =>
        LET W == info.WriteRowSize
            names == [i \in 1 .. Len(trace) |-> trace[i].cmd]
            nF == Len(flash)
            rF == Cardinality(RowSet(flash, W))
            rE == IF options.ProgramEEPROM THEN Cardinality(RowSet(eeprom, W)) ELSE 0
            rC == IF options.ProgramConfig THEN Cardinality(RowSet(config, W)) ELSE 0
            nI == IF options.ProgramID THEN Len(id) ELSE 0
        IN  /\ Len(names) <= Len(ExpectedNames)
            /\ names = SubSeq(ExpectedNames, 1, Len(names))
            /\ result.kind = "ok" =>
                /\ names = ExpectedNames
                /\ \A i \in 1 .. Len(trace) : trace[i].ok
                /\ AddrsOf(nF, rF) = RowSet(flash, W)
                /\ options.ProgramEEPROM => AddrsOf(nF + rF, rE) = RowSet(eeprom, W)
                /\ options.ProgramConfig => AddrsOf(nF + rF + rE, rC) = RowSet(config, W)
                /\ options.ProgramID =>
                       AddrsOf(nF + rF + rE + rC + nI, Len(trace) - (nF + rF + rE + rC + nI))
                           = RowSet(id, W)

\* C2 witness: a successful run that erased and wrote both flash and id, with
\* program_eeprom and program_id set and program_config clear.
C2_Witness ==
    /\ result.op = "Program" /\ result.kind = "ok"
    /\ flash # <<>> /\ id # <<>>
    /\ options.ProgramID /\ ~options.ProgramConfig /\ options.ProgramEEPROM
    /\ Len(trace) >= 4

\* C3 (as claimed, for the row sizes that are powers of two): every byte of
\* every WriteFlash block of a Program run, padding included, lies in the range
\* of an EraseFlash command that succeeded earlier in the run.
C3_EraseBeforeWrite ==
    (result.op = "Program" /\ IsPow2(info.EraseRowSize) /\ IsPow2(info.WriteRowSize)) =>
        \A i \in 1 .. Len(trace) :
            trace[i].cmd = "WriteFlash" =>
                \A k \in 1 .. Len(trace[i].data) :
                    \E j \in 1 .. i - 1 :
                        /\ trace[j].cmd = "EraseFlash"
                        /\ trace[j].ok
                        /\ ByteIn(Add32(trace[i].addr, ToUint32(k - 1)), trace[j].addr,
                                  BytesCovered(trace[j]))

\* The message Program wraps the failure of command number i in.
ExpectedWhat(i) ==
    LET inFlash == i <= Len(flash) + Cardinality(RowSet(flash, info.WriteRowSize))
        c == trace[i].cmd
    IN  IF c = "EraseFlash"
        THEN (IF inFlash THEN "failed to erase segment" ELSE "failed to erase id segment")
        ELSE IF c = "WriteFlash"
        THEN (IF inFlash THEN "failed to write flash" ELSE "failed to write id")
        ELSE IF c = "WriteEE" THEN "failed to write eeprom"
        ELSE "failed to write config"

\* C4: a failed erase or write command is the last command Program issues,
\* and Program then returns an error naming the failing operation and region
\* and carrying the address given to that command; Program returns an error
\* only so.
C4_AbortOnFailure ==
    result.op = "Program" =>
        /\ \A i \in 1 .. Len(trace) :
               ~trace[i].ok =>
                   /\ i = Len(trace)
                   /\ result.kind = "error"
                   /\ result.addr = trace[i].addr
                   /\ result.what = ExpectedWhat(i)
        /\ result.kind = "error" => Len(trace) >= 1 /\ ~trace[Len(trace)].ok

\* C4 witness: the erase of the first of two flash segments failed, and the
\* second erase and the writes were not issued.
C4_Witness ==
    /\ result.op = "Program" /\ result.kind = "error"
    /\ Len(flash) = 2 /\ info.WriteRowSize = 4
    /\ Len(trace) = 1 /\ ~trace[1].ok
    /\ result.what = "failed to erase segment"

(***************************************************************************)
(* The frame of a command (src/unnamed/part_001:59, src/bootloader.go)     *)
(***************************************************************************)
\* A programmer that is constructed and left alone while the codec runs.
ProgrammerNew ==
    /\ profile = ProfileK20
    /\ options = [ProgramEEPROM |-> TRUE, ProgramConfig |-> TRUE, ProgramID |-> TRUE,
                  VerifyByReading |-> TRUE]
    /\ info = ZeroInfo
    /\ flash = <<>>
    /\ id = <<>>
    /\ config = <<>>
    /\ eeprom = <<>>
    /\ input = <<>>
    /\ succeeded = {}
    /\ trace = <<>>
    /\ result = Ok("NewPIC8Programmer")

\* tx := append([]byte{0x55}, cmd.GetBytes()...)
frame(c) == <<85>> \o GetBytes(c)

\* A payload one byte longer than a uint16 can count.
LongPayloadLen == U16
LongPayload == [i \in 1 .. LongPayloadLen |-> 255]

FrameAddresses == {U32(0), U32(2048), <<4660, 22136>>, <<U16 - 1, U16 - 1>>}
FrameLengths == {0, 1, 258, U16 - 1}
FramePayloads == {<<>>, <<222, 173>>, <<1, 2, 3>>, LongPayload}

\* Commands of every constructor, and Command values whose exported fields
\* the caller filled in directly (Length need not agree with Data there).
FrameCommands ==
    {NewGetVersionCommand, NewResetCommand}
    \cup {NewReadFlashCommand(a, n) : a \in FrameAddresses, n \in FrameLengths}
    \cup {NewReadEECommand(a, n) : a \in FrameAddresses, n \in FrameLengths}
    \cup {NewReadConfigCommand(a, n) : a \in FrameAddresses, n \in FrameLengths}
    \cup {NewCalculateChecksumCommand(a, n) : a \in FrameAddresses, n \in FrameLengths}
    \cup {NewEraseFlashCommand(a, n) : a \in FrameAddresses, n \in FrameLengths}
    \cup {NewWriteFlashCommand(a, d) : a \in FrameAddresses, d \in FramePayloads}
    \cup {NewWriteEECommand(a, d) : a \in FrameAddresses, d \in FramePayloads}
    \cup {NewWriteConfigCommand(a, d) : a \in FrameAddresses, d \in FramePayloads}
    \cup {Command(commandWriteFlash, Unlock, U32(2048), n, d, 0, TRUE) :
            n \in FrameLengths, d \in FramePayloads}

\* The first statement of send, for any command.
Frame(c) ==
    /\ cmd' = c
    /\ tx' = frame(c)
    /\ UNCHANGED <<engineVars, pc, written, wire, rx, resp, rcap, got, sres>>

InitFrame == ProgrammerNew /\ CodecNew

NextFrame == \E c \in FrameCommands : Frame(c)

SpecFrame == InitFrame /\ [][NextFrame]_vars

(***************************************************************************)
(* Claims about the frame                                                  *)
(***************************************************************************)
\* The fields read back from a frame at their fixed offsets.
FrameOpcode(t) == t[2]
FrameLength(t) == t[3] + 256 * t[4]
FrameUnlock(t) == <<t[5], t[6]>>
FrameAddress(t) == <<t[9] + 256 * t[10], t[7] + 256 * t[8]>>
FramePayload(t) == SubSeq(t, 11, Len(t))

\* C9: the frame of every command is 0x55, the opcode, the 16-bit length
\* little-endian, the two unlock bytes, the address little-endian and the
\* payload: 10 + len(payload) bytes, each field recovered at its fixed offset
\* (the length recovered is the 16-bit length the command is sent with).
C9_FrameLayout ==
    tx # <<>> =>
        /\ Len(tx) = 10 + Len(cmd.Data)
        /\ tx[1] = 85
        /\ FrameOpcode(tx) = cmd.Command
        /\ FrameLength(tx) = (IF Len(cmd.Data) > 0 THEN Len(cmd.Data) % U16 ELSE cmd.Length)
        /\ FrameUnlock(tx) = cmd.UnlockSequence
        /\ FrameAddress(tx) = cmd.Address
        /\ FramePayload(tx) = cmd.Data

\* A write command with payload, unlock bytes and an address whose four
\* bytes all differ has been framed.
C9_Witness ==
    /\ tx # <<>>
    /\ cmd.Command = commandWriteConfig
    /\ cmd.Address = <<4660, 22136>>
    /\ cmd.Data = <<1, 2, 3>>
    /\ tx = <<85, 7, 3, 0, 85, 170, 120, 86, 52, 18, 1, 2, 3>>

\* The commands of the table that carry the unlock bytes and are answered
\* with a success code.
Destructive == {2, 3, 5, 7}

\* C11: each constructor yields its table opcode 0x00..0x09; the unlock bytes
\* are 55 AA for WriteFlash, EraseFlash, WriteEE and WriteConfig and 00 00 for
\* the other six; exactly those four expect a success code; the response
\* length is 16 for GetVersion, the requested length for the three reads, 2
\* for CalculateChecksum and 0 for the rest.
C11_CommandTable ==
    /\ NewGetVersionCommand.Command = 0
    /\ NewResetCommand.Command = 9
    /\ \A a \in FrameAddresses :
        /\ \A n \in FrameLengths :
            /\ NewReadFlashCommand(a, n).Command = 1
            /\ NewEraseFlashCommand(a, n).Command = 3
            /\ NewReadEECommand(a, n).Command = 4
            /\ NewReadConfigCommand(a, n).Command = 6
            /\ NewCalculateChecksumCommand(a, n).Command = 8
        /\ \A d \in FramePayloads \ {LongPayload} :
            /\ NewWriteFlashCommand(a, d).Command = 2
            /\ NewWriteEECommand(a, d).Command = 5
            /\ NewWriteConfigCommand(a, d).Command = 7
    /\ tx # <<>> =>
        /\ cmd.Command \in 0 .. 9
        /\ cmd.UnlockSequence = (IF cmd.Command \in Destructive THEN <<85, 170>> ELSE <<0, 0>>)
        /\ cmd.expectsSuccessCode = (cmd.Command \in Destructive)
        /\ cmd.responseLength =
              (IF cmd.Command = 0 THEN 16
               ELSE IF cmd.Command \in {1, 4, 6} THEN cmd.Length
               ELSE IF cmd.Command = 8 THEN 2
               ELSE 0)

\* A checksum request, whose response length is not the length it asks
\* about, has been built and framed.
C11_Witness ==
    /\ tx # <<>>
    /\ cmd = NewCalculateChecksumCommand(U32(2048), 258)
    /\ cmd.responseLength = 2

\* C10: with a non-empty payload the length field of the frame is the number
\* of payload bytes, whatever the caller put in Length; with an empty payload
\* it is the caller's Length.
C10_LengthField ==
    tx # <<>> =>
        FrameLength(tx) = (IF Len(cmd.Data) > 0 THEN Len(cmd.Data) ELSE cmd.Length)

(***************************************************************************)
(* The serial codec (src/unnamed/part_001)                                 *)
(***************************************************************************)
\* What send returns.
SendOk(data) == [ok |-> TRUE, err |-> "", position |-> 0, code |-> 0, reason |-> "", resp |-> data]
ReadError == [ok |-> FALSE, err |-> "read error", position |-> 0, code |-> 0, reason |-> "", resp |-> <<>>]
EchoMismatch(i) ==
    [ok |-> FALSE, err |-> "echo mismatch at position", position |-> i, code |-> 0,
     reason |-> "", resp |-> <<>>]
Rejected(code) ==
    [ok |-> FALSE, err |-> "command returned code", position |-> 0, code |-> code,
     reason |-> GetResponseCodeString(code), resp |-> <<>>]

\* The prefix each operation puts before an error of send.
opFailed(c) ==
    CASE c.Command = commandGetVersion -> ""
      [] c.Command = commandReadFlash -> "read flash failed"
      [] c.Command = commandWriteFlash -> "write flash failed"
      [] c.Command = commandEraseFlash -> "erase flash failed"
      [] c.Command = commandReadEE -> "read eeprom failed"
      [] c.Command = commandWriteEE -> "write eeprom failed"
      [] c.Command = commandReadConfig -> "read config failed"
      [] c.Command = commandWriteConfig -> "write config failed"
      [] c.Command = commandCalculateChecksum -> "calculate checksum failed"
      [] OTHER -> "reset failed"

\* What the operation returns, given what send returned.
opReturn(c, r) ==
    LET failure == [ok |-> FALSE, err |-> opFailed(c), cause |-> r.err, position |-> r.position,
                    code |-> r.code, reason |-> r.reason, value |-> <<>>]
        success(v) == [ok |-> TRUE, err |-> "", cause |-> "", position |-> 0, code |-> 0,
                       reason |-> "", value |-> v]
    IN  IF ~r.ok THEN failure
        ELSE CASE c.Command = commandGetVersion ->
                    LET parsed == ParseGetVersionResponse(r.resp)
                    IN  IF parsed.ok THEN success(parsed.info)
                        ELSE [failure EXCEPT !.err = "failed to parse GetVersion response",
                                             !.cause = "invalid response length"]
               [] c.Command \in {commandReadFlash, commandReadEE, commandReadConfig} ->
                    success(r.resp)
               [] c.Command = commandCalculateChecksum ->
                    success((r.resp[1] + 256 * r.resp[2]) % U16)
               [] OTHER -> success(<<>>)

\* b.port.Write(tx): the frame handed to the port; send drops what Write returns.
sendWrite_Retry(t, failed) ==
    IF failed THEN <<[frame |-> t, failed |-> TRUE], [frame |-> t, failed |-> FALSE]>>
    ELSE <<[frame |-> t, failed |-> FALSE]>>

sendWrite(t, failed) == <<[frame |-> t, failed |-> failed]>>

echoLen(c) == Len(frame(c)) - Len(c.Data)

\* The echo comparison loop from index i: the first index that fails it, or -1.
RECURSIVE echoCheck(_, _, _, _)
echoCheck(t, echo, i, n) ==
    IF i >= n THEN -1
    ELSE IF i # 4 /\ i # 5 /\ t[i + 1] # echo[i + 1] THEN i
    ELSE echoCheck(t, echo, i + 1, n)

\* Where send goes when a recv has returned data: the next recv and its
\* count, or the return of send.
Recv(phase, count) == [pc |-> phase, count |-> count, res |-> ReadError]
Return(r) == [pc |-> "done", count |-> 0, res |-> r]

afterCode(c) ==
    IF c.responseLength > 0 THEN Recv("resp", c.responseLength) ELSE Return(SendOk(<<>>))

afterEcho(c) ==
    IF c.expectsSuccessCode THEN Recv("code", 1) ELSE afterCode(c)

sendStep(c, t, phase, data) ==
    IF phase = "echo"
    THEN LET i == echoCheck(t, data, 0, echoLen(c))
         IN  IF i >= 0 THEN Return(EchoMismatch(i)) ELSE afterEcho(c)
    ELSE IF phase = "code"
    THEN IF data[1] # ResultSuccess THEN Return(Rejected(data[1])) ELSE afterCode(c)
    ELSE Return(SendOk(data))

\* The capacity append gives resp when n bytes no longer fit in oldCap: Go
\* only promises room for n; the gc runtime doubles a small capacity and
\* rounds it up to an allocation size class.
SizeClasses == {8, 16, 24, 32, 48, 64, 80, 96, 112, 128}
roundupsize(n) == CHOOSE k \in SizeClasses : k >= n /\ \A j \in SizeClasses : j >= n => k <= j
GrowCaps(oldCap, n) == {n, roundupsize(IF n > 2 * oldCap THEN n ELSE 2 * oldCap)}

Min(a, b) == IF a < b THEN a ELSE b

(***************************************************************************)
(* The device at the other end of the port                                 *)
(***************************************************************************)
\* The bytes a device answers a read command with.
Payload(c) ==
    IF c.Command = commandGetVersion THEN VersionResponse(64, 64)
    ELSE [i \in 1 .. c.responseLength |-> 160 + i]

\* The echo of frame t, wrong at the indices (from 0) in D.
Echo(t, D) == [i \in 1 .. 10 |-> IF (i - 1) \in D THEN 255 - t[i] ELSE t[i]]

EchoTolerated == {{}, {5}, {4, 5}}
EchoDiffs == EchoTolerated \cup {{0}, {3, 4}, {5, 9}}
Codes == {ResultSuccess, ResultUnsupported, ResultAddressError, 0}

\* What a device may send for command c: nothing, or an echo followed by
\* the success byte (for the commands that have one) and the payload.  A
\* device that has garbled the echo goes on as if it had not.
Replies(c) ==
    {<<>>}
    \cup {Echo(frame(c), D) \o <<code>> \o (IF code = ResultSuccess THEN Payload(c) ELSE <<>>) :
            D \in IF c.expectsSuccessCode THEN EchoTolerated ELSE {}, code \in Codes}
    \cup {Echo(frame(c), D) \o <<ResultSuccess>> \o Payload(c) :
            D \in IF c.expectsSuccessCode THEN EchoDiffs \ EchoTolerated ELSE {}}
    \cup {Echo(frame(c), D) \o Payload(c) :
            D \in IF c.expectsSuccessCode THEN {} ELSE EchoDiffs}

\* The most bytes of earlier exchanges still on their way or unread when
\* an operation is called: in general, and when the caller repeats one read.
MaxPending == 2
MaxLate == 12

(***************************************************************************)
(* The operations of serialBootloader                                      *)
(***************************************************************************)
\* Connect: the port is opened and whatever it has received is flushed.
serialConnect ==
    /\ pc \in {"closed", "idle"}
    /\ pc' = "idle"
    /\ rx' = <<>>
    /\ UNCHANGED <<engineVars, cmd, tx, written, wire, resp, rcap, got, sres>>

\* The caller has the operation's result; the codec keeps nothing of it.
Returned ==
    /\ pc = "done"
    /\ pc' = "idle"
    /\ cmd' = Command(0, NoUnlock, U32(0), 0, <<>>, 0, FALSE)
    /\ tx' = <<>>
    /\ written' = <<>>
    /\ got' = <<>>
    /\ sres' = Pending
    /\ UNCHANGED <<engineVars, wire, rx, resp, rcap>>

\* send up to its first Read: the frame is built and written, and recv(echoLen)
\* starts.  The device puts its reply on the wire.  It is called with at most
\* pending bytes of earlier exchanges outstanding.
send(c, pending) ==
    /\ pc = "idle"
    /\ Len(wire) + Len(rx) <= pending
    /\ \E failed \in BOOLEAN, reply \in Replies(c) :
        /\ cmd' = c
        /\ tx' = frame(c)
        /\ written' = sendWrite(frame(c), failed)
        /\ wire' = wire \o reply
        /\ pc' = "echo"
        /\ resp' = <<>>
        /\ rcap' = echoLen(c)
        /\ got' = <<>>
        /\ sres' = Pending
        /\ UNCHANGED <<engineVars, rx>>

serialGetVersion == send(NewGetVersionCommand, MaxPending)
serialReadFlash(address, length) == send(NewReadFlashCommand(address, length), MaxPending)
serialWriteFlash(address, data) == send(NewWriteFlashCommand(address, data), MaxPending)
serialEraseFlash(address, numRows) == send(NewEraseFlashCommand(address, numRows), MaxPending)
serialReadEE(address, length) == send(NewReadEECommand(address, length), MaxPending)
serialWriteEE(address, data) == send(NewWriteEECommand(address, data), MaxPending)
serialReadConfig(address, length) == send(NewReadConfigCommand(address, length), MaxPending)
serialWriteConfig(address, data) == send(NewWriteConfigCommand(address, data), MaxPending)
serialCalculateChecksum(address, length) == send(NewCalculateChecksumCommand(address, length), MaxPending)
serialReset == send(NewResetCommand, MaxPending)

\* The bytes on the wire reach the port.
Arrive ==
    /\ wire # <<>>
    /\ rx' = rx \o wire
    /\ wire' = <<>>
    /\ UNCHANGED <<engineVars, pc, cmd, tx, written, resp, rcap, got, sres>>

\* One pass of recv's loop whose Read finds nothing within the read timeout:
\* recv and send return the error.
ReadTimeout ==
    /\ pc \in {"echo", "code", "resp"}
    /\ rx = <<>>
    /\ got' = Append(got, [phase |-> pc, data |-> resp, ok |-> FALSE])
    /\ pc' = "done"
    /\ resp' = <<>>
    /\ rcap' = 0
    /\ sres' = opReturn(cmd, ReadError)
    /\ UNCHANGED <<engineVars, cmd, tx, written, wire, rx>>

\* One pass of recv's loop whose Read returns n bytes into its cap(resp)-byte
\* buffer, and, when that ends the loop, send up to its next Read or its return.
Read(n) ==
    /\ pc \in {"echo", "code", "resp"}
    /\ n \in 1 .. Min(rcap, Len(rx))
    /\ LET r == resp \o SubSeq(rx, 1, n)
       IN  \E newCap \in (IF Len(r) > rcap THEN GrowCaps(rcap, Len(r)) ELSE {rcap}) :
            /\ rx' = SubSeq(rx, n + 1, Len(rx))
            /\ IF Len(r) < newCap
               THEN /\ resp' = r
                    /\ rcap' = newCap
                    /\ UNCHANGED <<pc, got, sres>>
               ELSE LET s == sendStep(cmd, tx, pc, r)
                    IN  /\ got' = Append(got, [phase |-> pc, data |-> r, ok |-> TRUE])
                        /\ pc' = s.pc
                        /\ resp' = <<>>
                        /\ rcap' = s.count
                        /\ sres' = IF s.pc = "done" THEN opReturn(cmd, s.res) ELSE sres
    /\ UNCHANGED <<engineVars, cmd, tx, written, wire>>

\* The arguments the operations are called with.
FlashAddress == U32(2048)
EEAddress == <<240, 0>>
ConfigAddress == <<48, 0>>
ReadLength == 2
WriteData == <<222, 173>>

InitCodec == ProgrammerNew /\ CodecNew

NextCodec ==
    \/ serialConnect
    \/ serialGetVersion
    \/ serialReadFlash(FlashAddress, ReadLength)
    \/ serialWriteFlash(FlashAddress, WriteData)
    \/ serialEraseFlash(FlashAddress, 1)
    \/ serialReadEE(EEAddress, ReadLength)
    \/ serialWriteEE(EEAddress, WriteData)
    \/ serialReadConfig(ConfigAddress, ReadLength)
    \/ serialWriteConfig(ConfigAddress, WriteData)
    \/ serialCalculateChecksum(FlashAddress, ReadLength)
    \/ serialReset
    \/ Returned
    \/ Arrive
    \/ ReadTimeout
    \/ \E n \in 1 .. Len(rx) : Read(n)

SpecCodec == InitCodec /\ [][NextCodec]_vars

\* The codec under a caller that reads the same two bytes of flash again and
\* again, whatever the last call returned, while the device may be so slow
\* that a whole reply is still outstanding at the next call.
retryReadFlash == send(NewReadFlashCommand(FlashAddress, ReadLength), MaxLate)

NextRetry ==
    \/ serialConnect
    \/ retryReadFlash
    \/ Returned
    \/ Arrive
    \/ ReadTimeout
    \/ \E n \in 1 .. Len(rx) : Read(n)

SpecRetry == InitCodec /\ [][NextRetry]_vars

(***************************************************************************)
(* GetVersion on the responses send may hand it                            *)
(***************************************************************************)
\* The responses: 16 bytes in which every byte that is decoded on its own
\* takes one of two values, as do the four reserved bytes and the config
\* words, and responses of 0, 15 and 17 bytes.
VersionResponses ==
    {<<v[1], v[2], v[3], v[4], r[1], r[2], v[5], v[6], r[3], r[4], v[7], v[8]>> \o c :
        v \in [1 .. 8 -> {2, 131}], r \in [1 .. 4 -> {0, 77}],
        c \in {<<1, 2, 3, 4>>, <<255, 0, 128, 9>>}}
    \cup {<<>>, [i \in 1 .. 15 |-> i], [i \in 1 .. 17 |-> i]}

\* send has the response of a GetVersion in hand and is about to return it.
InitParse ==
    /\ ProgrammerNew
    /\ pc = "resp"
    /\ cmd = NewGetVersionCommand
    /\ tx = frame(NewGetVersionCommand)
    /\ written = sendWrite(frame(NewGetVersionCommand), FALSE)
    /\ wire = <<>>
    /\ rx = <<>>
    /\ resp \in VersionResponses
    /\ rcap = respLengthGetVersion
    /\ got = <<>>
    /\ sres = Pending

\* serialBootloader.GetVersion from the return of send on, and the assignment
\* of its result to p.info by Connect.
GetVersionReturns ==
    /\ pc = "resp"
    /\ pc' = "done"
    /\ sres' = opReturn(cmd, SendOk(resp))
    /\ info' = ParseGetVersionResponse(resp).info
    /\ UNCHANGED <<profile, options, flash, id, config, eeprom, succeeded, input, trace, result>>
    /\ UNCHANGED <<cmd, tx, written, wire, rx, resp, rcap, got>>

NextParse == GetVersionReturns

SpecParse == InitParse /\ [][NextParse]_vars

(***************************************************************************)
(* Claims about the codec                                                  *)
(***************************************************************************)
InExchange == pc \in {"echo", "code", "resp", "done"}

EchoDiff(t, echo) == {i \in 0 .. 9 : t[i + 1] # echo[i + 1]}

\* C6: an operation returns success only if the write of its frame succeeded,
\* every read succeeded, the echo matched and, for a command that has one,
\* the success byte was 0x01.
C6_FailuresSurfaced ==
    (pc = "done" /\ sres.ok) =>
        /\ \A i \in 1 .. Len(written) : ~written[i].failed
        /\ \A i \in 1 .. Len(got) : got[i].ok
        /\ EchoDiff(tx, got[1].data) \subseteq {4, 5}
        /\ cmd.expectsSuccessCode => got[2].data[1] = ResultSuccess

\* C7: the echo recv reads exactly 10 bytes; the echo is accepted iff it
\* differs from the first 10 bytes of tx at indices 4 and 5 at most, and
\* otherwise the operation fails reporting the lowest index that differs
\* (4 and 5 apart).
C7_EchoCheck ==
    (InExchange /\ Len(got) >= 1) =>
        LET echo == got[1]
            diff == EchoDiff(tx, echo.data) \ {4, 5}
            mismatch == pc = "done" /\ ~sres.ok /\ sres.cause = "echo mismatch at position"
        IN  /\ echo.phase = "echo"
            /\ IF echo.ok THEN Len(echo.data) = 10 ELSE Len(echo.data) < 10
            /\ echo.ok =>
                IF diff = {} THEN ~mismatch
                ELSE /\ mismatch
                     /\ Len(got) = 1
                     /\ sres.position \in diff
                     /\ \A i \in diff : sres.position <= i

\* The recvs that follow the echo recv, as C8 has them.
CodeRecvs == {i \in 1 .. Len(got) : got[i].phase = "code"}
RespRecvs == {i \in 1 .. Len(got) : got[i].phase = "resp"}

\* C8, the success byte: a command that expects one reads exactly one byte
\* right after the accepted echo and is rejected with that code and its reason
\* unless the byte is 0x01, with nothing read after a rejection; a command
\* that expects none reads none.
C8_SuccessByte ==
    InExchange =>
        /\ CodeRecvs \subseteq (IF cmd.expectsSuccessCode THEN {2} ELSE {})
        /\ \A i \in CodeRecvs : got[i].ok =>
            /\ Len(got[i].data) = 1
            /\ IF got[i].data[1] = ResultSuccess
               THEN ~(pc = "done" /\ sres.cause = "command returned code")
               ELSE /\ pc = "done" /\ ~sres.ok /\ sres.cause = "command returned code"
                    /\ sres.code = got[i].data[1]
                    /\ sres.reason = (IF sres.code = 255 THEN "unsupported"
                                      ELSE IF sres.code = 254 THEN "address error"
                                      ELSE "invalid response code")
                    /\ Len(got) = i

\* C8, the response: a command with a positive response length reads exactly
\* that many bytes, last, and returns them; one with response length 0 reads
\* nothing more.
C8_Response ==
    InExchange =>
        /\ RespRecvs \subseteq (IF cmd.responseLength > 0 THEN {Len(got)} ELSE {})
        /\ \A i \in RespRecvs : got[i].ok =>
            /\ Len(got[i].data) = cmd.responseLength
            /\ pc = "done"
            /\ cmd.Command \in {commandReadFlash, commandReadEE, commandReadConfig}
                   => sres.ok /\ sres.value = got[i].data

\* C8: the reply phase of an exchange.
C8_ReplyPhase == C8_SuccessByte /\ C8_Response

RECURSIVE RecvBytes(_, _)
\* The bytes the recvs i.. of the current operation took from the port.
RecvBytes(g, i) == IF i > Len(g) THEN <<>> ELSE g[i].data \o RecvBytes(g, i + 1)

\* Every byte the current operation has read so far.
Consumed == RecvBytes(got, 1) \o resp

\* C12: the codec is stateless across commands: whatever the earlier
\* exchanges were and however they ended, the bytes an exchange consumes are
\* bytes of the device's reply to its own command, never bytes of an earlier
\* exchange (what it has read, followed by what is still to come, is one of
\* the replies to the command it sent).
C12_Stateless ==
    (InExchange /\ Consumed # <<>>) => (Consumed \o rx \o wire) \in Replies(cmd)

(***************************************************************************)
(* Claims about LoadHex                                                    *)
(***************************************************************************)
\* [segment.Address, segment.Address + len(segment.Data)) lies inside [lo, hi),
\* in unbounded arithmetic: the length is compared with the room left below hi.
Contains(segment, lo, hi) ==
    /\ Le32(lo, segment.Address)
    /\ Le32(segment.Address, hi)
    /\ Le32(ToUint32(Len(segment.Data)), Sub32(hi, segment.Address))

\* The first region, in the order flash, id, config, eeprom, that wholly
\* contains the segment; "none" when there is no such region.
Region(segment, p) ==
    IF Contains(segment, p.BootloaderOffset, p.FlashSize) THEN "flash"
    ELSE IF Contains(segment, p.IDOffset, Add32(p.IDOffset, p.IDSize)) THEN "id"
    ELSE IF Contains(segment, p.ConfigOffset, Add32(p.ConfigOffset, p.ConfigSize)) THEN "config"
    ELSE IF Contains(segment, p.EEPROMOffset, Add32(p.EEPROMOffset, p.EEPROMSize)) THEN "eeprom"
    ELSE "none"

RECURSIVE AddressesIn(_, _, _)
\* The addresses of the segments of `segments` whose region is r, in order.
AddressesIn(segments, r, p) ==
    IF segments = <<>> THEN <<>>
    ELSE (IF Region(Head(segments), p) = r THEN <<Head(segments).Address>> ELSE <<>>)
             \o AddressesIn(Tail(segments), r, p)

\* The addresses of the segments a step appended to a sequence.
Appended(before, after) == [i \in 1 .. Len(after) - Len(before) |-> after[Len(before) + i].Address]

\* A step that is a LoadHex of a hex file with at least one segment.
LoadHexStep == result'.op = "LoadHex" /\ input' # <<>>

\* How many of the input segments a LoadHex step stored.
Stored == (Len(flash') + Len(id') + Len(config') + Len(eeprom'))
              - (Len(flash) + Len(id) + Len(config) + Len(eeprom))

\* C13: LoadHex appends each input segment to exactly one of flash, id,
\* config, eeprom, namely to the first of these regions that wholly contains
\* [address, address + len(data)), or it fails: the segments it stored are a
\* prefix of the input, each in the sequence of its region, and the prefix is
\* the whole input when LoadHex returns nil.
C13_Classification ==
    [][LoadHexStep =>
          LET done == SubSeq(input', 1, Stored)
          IN  /\ Stored \in 0 .. Len(input')
              /\ Appended(flash, flash') = AddressesIn(done, "flash", profile)
              /\ Appended(id, id') = AddressesIn(done, "id", profile)
              /\ Appended(config, config') = AddressesIn(done, "config", profile)
              /\ Appended(eeprom, eeprom') = AddressesIn(done, "eeprom", profile)
              /\ (result'.kind = "ok" => Stored = Len(input'))]_vars

\* The positions of the input segments that fit none of the four regions.
Unfit == {i \in 1 .. Len(input') : Region(input'[i], profile) = "none"}

\* The least element of a non-empty set of numbers.
First(S) == CHOOSE i \in S : \A j \in S : i <= j

\* C14: LoadHex of a parsed hex file fails if and only if some input segment
\* fits none of the four regions; the error then carries the address of the
\* first such segment, and no segment at or after it is stored.
C14_UnclassifiedSegment ==
    [][LoadHexStep =>
          /\ (result'.kind = "error") <=> (Unfit # {})
          /\ Unfit # {} =>
                 /\ result'.what = "invalid data segment"
                 /\ result'.addr = input'[First(Unfit)].Address
                 /\ Stored < First(Unfit)]_vars

\* LoadHex takes a segment for flash: the first case of its switch.
TakenAsFlash(segment, p) ==
    validSegment(segment, p.BootloaderOffset, Sub32(p.FlashSize, p.BootloaderOffset))

RECURSIVE FlashOf(_, _)
\* The segments of `segments` that LoadHex takes for flash, as they are to be
\* stored: an odd-length one with one 0xFF after its data, an even one as is.
FlashOf(segments, p) ==
    IF segments = <<>> THEN <<>>
    ELSE LET s == Head(segments)
         IN  (IF ~TakenAsFlash(s, p) THEN <<>>
              ELSE IF Len(s.Data) % 2 = 1 THEN <<Seg(s.Address, s.Data \o <<255>>)>>
              ELSE <<s>>)
                 \o FlashOf(Tail(segments), p)

\* C15: every stored flash segment has an even byte length; a LoadHex step
\* stores a segment classified as flash with exactly one 0xFF appended when
\* its length is odd and unchanged when its length is even.
C15_FlashEvenLength ==
    /\ [](\A i \in 1 .. Len(flash) : Len(flash[i].Data) % 2 = 0)
    /\ [][LoadHexStep =>
             flash' = flash \o FlashOf(SubSeq(input', 1, Stored), profile)]_vars

\* A LoadHex has stored an odd-length input segment in flash, padded.
C15_Witness ==
    /\ result.op = "LoadHex"
    /\ \E i \in 1 .. Len(input) :
           /\ Len(input[i].Data) % 2 = 1
           /\ flash # <<>>
           /\ flash[Len(flash)] = Seg(input[i].Address, input[i].Data \o <<255>>)

\* Which case of LoadHex's switch takes the segment.
TakenAs(segment, p) ==
    IF TakenAsFlash(segment, p) THEN "flash"
    ELSE IF validSegment(segment, p.IDOffset, p.IDSize) THEN "id"
    ELSE IF validSegment(segment, p.ConfigOffset, p.ConfigSize) THEN "config"
    ELSE IF validSegment(segment, p.EEPROMOffset, p.EEPROMSize) THEN "eeprom"
    ELSE "none"

RECURSIVE TakenOf(_, _, _)
\* The segments of `segments` that the case r of the switch takes, in order.
TakenOf(segments, r, p) ==
    IF segments = <<>> THEN <<>>
    ELSE (IF TakenAs(Head(segments), p) = r THEN <<Head(segments)>> ELSE <<>>)
             \o TakenOf(Tail(segments), r, p)

\* A stored segment is the input segment with every 0xFF replaced by 0x00.
Cleared(stored, segment) ==
    /\ stored.Address = segment.Address
    /\ Len(stored.Data) = Len(segment.Data)
    /\ \A k \in 1 .. Len(segment.Data) :
           stored.Data[k] = (IF segment.Data[k] = 255 THEN 0 ELSE segment.Data[k])

\* C16: no stored config segment holds a 0xFF byte; a LoadHex step stores a
\* segment classified as config with every 0xFF as 0x00 and every other byte
\* unchanged, and stores the id and eeprom segments as they are (the flash
\* segments get nothing but the pad of C15).
C16_ConfigSentinel ==
    /\ [](\A i \in 1 .. Len(config) : \A k \in 1 .. Len(config[i].Data) : config[i].Data[k] # 255)
    /\ [][LoadHexStep =>
             LET done == SubSeq(input', 1, Stored)
                 cfg == TakenOf(done, "config", profile)
                 fl == TakenOf(done, "flash", profile)
             IN  /\ Len(config') = Len(config) + Len(cfg)
                 /\ SubSeq(config', 1, Len(config)) = config
                 /\ \A i \in 1 .. Len(cfg) : Cleared(config'[Len(config) + i], cfg[i])
                 /\ id' = id \o TakenOf(done, "id", profile)
                 /\ eeprom' = eeprom \o TakenOf(done, "eeprom", profile)
                 /\ Len(flash') = Len(flash) + Len(fl)
                 /\ \A i \in 1 .. Len(fl) :
                        SubSeq(flash'[Len(flash) + i].Data, 1, Len(fl[i].Data)) = fl[i].Data]_vars

\* A LoadHex has stored a config segment whose input held a 0xFF.
C16_Witness ==
    /\ result.op = "LoadHex"
    /\ config # <<>>
    /\ \E i \in 1 .. Len(input) :
           /\ \E k \in 1 .. Len(input[i].Data) : input[i].Data[k] = 255
           /\ Cleared(config[Len(config)], input[i])

(***************************************************************************)
(* Claims about Connect                                                    *)
(***************************************************************************)
\* The names of the Bootloader calls of the last programmer call, in order.
TraceNames == [i \in 1 .. Len(trace) |-> trace[i].cmd]

\* C17: Connect opens the transport and then issues exactly one GetVersion,
\* whose result becomes the cached version info; when the open fails no
\* GetVersion is issued; when either step fails Connect returns an error; and
\* in no case does Connect issue any other command.
C17_Connect ==
    result.op = "Connect" =>
        /\ TraceNames \in {<<"Connect">>, <<"Connect", "GetVersion">>}
        /\ ~trace[1].ok => (TraceNames = <<"Connect">> /\ result.kind = "error")
        /\ trace[1].ok => TraceNames = <<"Connect", "GetVersion">>
        /\ (result.kind = "ok") <=> (\A i \in 1 .. Len(trace) : trace[i].ok)
        /\ result.kind = "ok" => info = ParseGetVersionResponse(trace[2].data).info

\* A Connect has succeeded and cached the row sizes 2 and 4 the device sent.
C17_Witness ==
    /\ result.op = "Connect"
    /\ result.kind = "ok"
    /\ Len(trace) = 2
    /\ trace[2].data[11] = 2
    /\ info.EraseRowSize = 2
    /\ info.WriteRowSize = 4

\* C18: after a successful Connect the cached erase row size and write row
\* size are both non-zero powers of two, whatever 16-byte GetVersion response
\* the device sent.
C18_RowSizesPowersOfTwo ==
    (result.op = "Connect" /\ result.kind = "ok") =>
        (IsPow2(info.EraseRowSize) /\ IsPow2(info.WriteRowSize))

(***************************************************************************)
(* Claims about the lifecycle                                              *)
(***************************************************************************)
\* C19: Program and Verify send commands to the device only after both a
\* successful Connect and a successful LoadHex; LoadHex sends no command and
\* leaves the cached version info unchanged, and Connect leaves the four
\* segment sequences unchanged.
C19_Lifecycle ==
    /\ []((result.op \in {"Program", "Verify"} /\ trace # <<>>)
              => {"Connect", "LoadHex"} \subseteq succeeded)
    /\ [][/\ result'.op = "LoadHex" => (trace' = <<>> /\ info' = info)
          /\ result'.op = "Connect" =>
                 <<flash', id', config', eeprom'>> = <<flash, id, config, eeprom>>]_vars

(***************************************************************************)
(* Claims about Verify                                                     *)
(***************************************************************************)
\* The reads of one segment with the read command `name` and a write row size
\* W > 0: chunk k (from 0) is min(W, remaining) bytes at address + k*W.
ReadsOf(segment, name, W) ==
    LET len == Len(segment.Data)
        count == (len + W - 1) \div W
    IN  [k \in 1 .. count |->
            LET from == (k - 1) * W
                n == IF len - from < W THEN len - from ELSE W
            IN  [cmd |-> name, addr |-> Add32(segment.Address, ToUint32(from)), n |-> n,
                 bytes |-> [j \in 1 .. n |-> segment.Data[from + j]]]]

RECURSIVE ReadsOfAll(_, _, _)
ReadsOfAll(segments, name, W) ==
    IF segments = <<>> THEN <<>>
    ELSE ReadsOf(Head(segments), name, W) \o ReadsOfAll(Tail(segments), name, W)

\* The reads of a whole read-back verification, in order.
ExpectedReads ==
    LET W == info.WriteRowSize
    IN  ReadsOfAll(flash, "ReadFlash", W)
            \o (IF options.ProgramEEPROM THEN ReadsOfAll(eeprom, "ReadEE", W) ELSE <<>>)
            \o (IF options.ProgramConfig THEN ReadsOfAll(config, "ReadConfig", W) ELSE <<>>)
            \o (IF options.ProgramID THEN ReadsOfAll(id, "ReadFlash", W) ELSE <<>>)

\* The least index at which two sequences of equal length differ.
FirstDifference(a, b) == First({j \in 1 .. Len(a) : a[j] # b[j]})

\* C20: a read-back Verify reads each segment in consecutive chunks from the
\* segment address with stride W, asking for exactly min(W, remaining) bytes
\* each time; it returns success only if every byte of every verified segment
\* equals the byte the device returned for its address; at the first
\* differing byte it stops and fails with that byte's address, the expected
\* value and the value read. (With W = 0 every request is for 0 bytes and
\* Verify does not return success.)
C20_ReadBack ==
    (result.op = "Verify" /\ options.VerifyByReading) =>
        IF info.WriteRowSize = 0
        THEN /\ \A i \in 1 .. Len(trace) : trace[i].n = 0
             /\ trace # <<>> => result.kind # "ok"
        ELSE LET exp == ExpectedReads
             IN  /\ result.kind \in {"ok", "error"}
                 /\ Len(trace) <= Len(exp)
                 /\ \A i \in 1 .. Len(trace) :
                        /\ trace[i].cmd = exp[i].cmd
                        /\ trace[i].addr = exp[i].addr
                        /\ trace[i].n = exp[i].n
                        /\ trace[i].ok => Len(trace[i].data) = exp[i].n
                 /\ result.kind = "ok" =>
                        /\ Len(trace) = Len(exp)
                        /\ \A i \in 1 .. Len(trace) : trace[i].ok /\ trace[i].data = exp[i].bytes
                 /\ \A i \in 1 .. Len(trace) :
                        (trace[i].ok /\ trace[i].data # exp[i].bytes) =>
                            LET j == FirstDifference(trace[i].data, exp[i].bytes)
                            IN  /\ i = Len(trace)
                                /\ result.kind = "error"
                                /\ result.cause = "mismatch"
                                /\ result.addr = Add32(exp[i].addr, ToUint32(j - 1))
                                /\ result.expected = exp[i].bytes[j]
                                /\ result.read = trace[i].data[j]

\* A Verify has read a segment in two chunks and stopped at the second, whose
\* first byte the device returned changed.
C20_Witness ==
    /\ result.op = "Verify" /\ options.VerifyByReading
    /\ info.WriteRowSize = 4
    /\ result.kind = "error" /\ result.cause = "mismatch"
    /\ Len(trace) >= 2
    /\ trace[Len(trace)].cmd = "ReadEE"
    /\ trace[Len(trace)].n = 1
    /\ trace[Len(trace) - 1].cmd = "ReadEE"
    /\ trace[Len(trace) - 1].n = 4
    /\ result.addr = <<240, 4>>

\* An address lies in one of the segments.
InSegments(addr, segments) ==
    \E i \in 1 .. Len(segments) :
        /\ Le32(segments[i].Address, addr)
        /\ Lt32(Sub32(addr, segments[i].Address), ToUint32(Len(segments[i].Data)))

\* The place in the region order of the region a call of Verify reads: flash
\* 1, eeprom 2, config 3, id 4 (a ReadFlash inside an id segment reads id), and
\* 0 for a call that reads none of them.
ReadRank(call) ==
    IF call.cmd = "ReadFlash" /\ InSegments(call.addr, flash) THEN 1
    ELSE IF call.cmd = "ReadEE" /\ InSegments(call.addr, eeprom) THEN 2
    ELSE IF call.cmd = "ReadConfig" /\ InSegments(call.addr, config) THEN 3
    ELSE IF call.cmd = "ReadFlash" /\ InSegments(call.addr, id) THEN 4
    ELSE 0

\* The regions a read-back Verify is to read: flash always, the others by their flag.
Gated(rank) ==
    \/ rank = 1
    \/ rank = 2 /\ options.ProgramEEPROM
    \/ rank = 3 /\ options.ProgramConfig
    \/ rank = 4 /\ options.ProgramID

\* The segments of the region at a place of the region order.
Ranked(rank) == IF rank = 1 THEN flash ELSE IF rank = 2 THEN eeprom ELSE IF rank = 3 THEN config ELSE id

\* C21: with verify_by_reading set, Verify issues only read commands, in the
\* region order flash (ReadFlash, always), eeprom (ReadEE, only if
\* program_eeprom), config (ReadConfig, only if program_config), id (ReadFlash,
\* only if program_id), and a Verify that succeeds has read every region it
\* is to read; with verify_by_reading clear, Verify issues only
\* CalculateChecksum commands, over flash segments alone, one at least for
\* every flash segment when it succeeds, whatever the three program flags are.
C21_VerifyGating ==
    result.op = "Verify" =>
        IF options.VerifyByReading
        THEN /\ \A i \in 1 .. Len(trace) : ReadRank(trace[i]) # 0 /\ Gated(ReadRank(trace[i]))
             /\ \A i, j \in 1 .. Len(trace) : i < j => ReadRank(trace[i]) <= ReadRank(trace[j])
             /\ result.kind = "ok" =>
                    \A r \in 1 .. 4 :
                        (Gated(r) /\ Ranked(r) # <<>>) =>
                            \E i \in 1 .. Len(trace) : ReadRank(trace[i]) = r
        ELSE /\ \A i \in 1 .. Len(trace) :
                    trace[i].cmd = "CalculateChecksum" /\ InSegments(trace[i].addr, flash)
             /\ result.kind = "ok" =>
                    \A k \in 1 .. Len(flash) :
                        \E i \in 1 .. Len(trace) : trace[i].addr = flash[k].Address

\* A read-back Verify has succeeded with eeprom and id segments loaded and
\* program_eeprom clear: it has read the id segment and not the eeprom one.
C21_Witness ==
    /\ result.op = "Verify" /\ result.kind = "ok"
    /\ options.VerifyByReading /\ ~options.ProgramEEPROM /\ options.ProgramID
    /\ eeprom # <<>> /\ id # <<>>
    /\ trace # <<>>
    /\ \A i \in 1 .. Len(trace) : trace[i].cmd = "ReadFlash"

(***************************************************************************)
(* Claims about checksum verification                                      *)
(***************************************************************************)
RECURSIVE ChunksCover(_, _, _)
\* The calls of the trace from number i on are chunks that follow one another
\* from offset o of flash segment k on, each inside its segment, and cover
\* the segments to their ends; they stop short only when Verify failed.
ChunksCover(i, k, o) ==
    IF k > Len(flash) THEN i > Len(trace)
    ELSE IF o = Len(flash[k].Data) THEN ChunksCover(i, k + 1, 0)
    ELSE IF i > Len(trace) THEN result.kind # "ok"
    ELSE /\ trace[i].addr = Add32(flash[k].Address, ToUint32(o))
         /\ o + trace[i].n <= Len(flash[k].Data)
         /\ ChunksCover(i + 1, k, o + trace[i].n)

\* C22: every CalculateChecksum request of Verify has an even, non-zero
\* length of at most 0xFFFE, the chunks of a segment are consecutive and
\* cover it exactly, and the local sum never reads past the end of a chunk.
C22_ChecksumChunks ==
    (result.op = "Verify" /\ ~options.VerifyByReading) =>
        /\ \A i \in 1 .. Len(trace) :
               /\ trace[i].cmd = "CalculateChecksum"
               /\ trace[i].n % 2 = 0
               /\ trace[i].n > 0
               /\ trace[i].n <= 65534
        /\ ChunksCover(1, 1, 0)
        /\ result.kind # "panic"

\* A checksum Verify has succeeded on a segment of 65535 bytes, stored with
\* its pad: a chunk of 0xFFFE bytes and one of 2 bytes.
C22_Witness ==
    /\ result.op = "Verify" /\ result.kind = "ok" /\ ~options.VerifyByReading
    /\ Len(flash) = 1 /\ Len(flash[1].Data) = U16
    /\ Len(trace) = 2
    /\ trace[1].n = U16 - 2 /\ trace[1].addr = U32(4096)
    /\ trace[2].n = 2 /\ trace[2].addr = <<1, 4094>>

RECURSIVE StrideSum(_, _, _)
\* data[first] + data[first + 2] + ... over count bytes, by halving.
StrideSum(data, first, count) ==
    IF count = 0 THEN 0
    ELSE IF count = 1 THEN data[first]
    ELSE LET half == count \div 2
         IN  StrideSum(data, first, half) + StrideSum(data, first + 2 * half, count - half)

\* The sum modulo 2^16 of the 16-bit words data[2i] + 256 * data[2i+1] of the
\* n bytes of data after offset o: the low bytes, plus 256 times the high ones.
WordSum16(data, o, n) ==
    (StrideSum(data, o + 1, n \div 2) + 256 * (StrideSum(data, o + 2, n \div 2) % 256)) % U16

RECURSIVE ChecksumsAgree(_, _, _)
\* Whether the trace from entry i on, and the result, are those of comparing
\* the chunks of flash[k] from offset o on and of the segments after it.
ChecksumsAgree(i, k, o) ==
    IF k > Len(flash) THEN i > Len(trace) /\ result.kind = "ok"
    ELSE IF o >= Len(flash[k].Data) THEN ChecksumsAgree(i, k + 1, 0)
    ELSE IF i > Len(trace) THEN FALSE
    ELSE LET local == WordSum16(flash[k].Data, o, trace[i].n)
             device == trace[i].data[1] + 256 * trace[i].data[2]
         IN  IF ~trace[i].ok
             THEN i = Len(trace) /\ result.kind = "error"
                  /\ result.cause = "failed to calculate checksum"
             ELSE IF local = device THEN ChecksumsAgree(i + 1, k, o + trace[i].n)
             ELSE /\ i = Len(trace)
                  /\ result.kind = "error"
                  /\ result.cause = "checksum mismatch"
                  /\ result.addr = trace[i].addr
                  /\ result.expected = local
                  /\ result.read = device

\* C28: a checksum Verify compares, chunk by chunk, the sum modulo 2^16 of the
\* little-endian 16-bit words of the chunk with the device's two response
\* bytes read as resp[0] + 256 * resp[1]; it returns nil exactly when every
\* chunk agrees, and otherwise stops at the first chunk that differs, with an
\* error carrying that chunk's address and both sums.
C28_ChecksumComparison ==
    (result.op = "Verify" /\ ~options.VerifyByReading) => ChecksumsAgree(1, 1, 0)

\* A checksum Verify has failed at the second chunk of the long segment, whose
\* first chunk agreed: the device's sum there is one more than the local sum.
C28_Witness ==
    /\ result.op = "Verify" /\ ~options.VerifyByReading
    /\ result.kind = "error" /\ result.cause = "checksum mismatch"
    /\ Len(trace) = 2
    /\ result.addr = <<1, 4094>>
    /\ result.expected = WordSum16(flash[1].Data, U16 - 2, 2)
    /\ result.read = result.expected + 1
    /\ trace[1].data[1] + 256 * trace[1].data[2] = WordSum16(flash[1].Data, 0, U16 - 2)

(***************************************************************************)
(* Claims about Reset and GetVersion                                       *)
(***************************************************************************)
\* C23: Reset transmits the Reset frame and awaits no response and no success
\* byte; when the device stops responding after the frame has been
\* transmitted (a read of the exchange fails or finds nothing), Reset still
\* returns success.
C23_ResetNonFatal ==
    (InExchange /\ cmd.Command = commandReset) =>
        /\ Len(written) = 1 /\ written[1].frame = frame(NewResetCommand)
        /\ pc \notin {"code", "resp"}
        /\ \A i \in 1 .. Len(got) : got[i].phase = "echo"
        /\ (pc = "done" /\ \E i \in 1 .. Len(got) : ~got[i].ok) => sres.ok

\* C24: a GetVersion response whose length is not 16 is rejected with an
\* error and a zero VersionInfo; one of 16 bytes b decodes to version_minor
\* b[0], version_major b[1], max_packet_size b[2] + 256*b[3], device_id
\* b[6] + 256*b[7], erase_row_size b[10], write_row_size b[11] and
\* config_words b[12..15], whatever the bytes 4, 5, 8 and 9 are.
C24_GetVersionDecoding ==
    (pc = "done" /\ cmd = NewGetVersionCommand /\ tx # <<>> /\ got = <<>>) =>
        IF Len(resp) # 16
        THEN /\ ~sres.ok
             /\ sres.cause = "invalid response length"
             /\ info = ZeroInfo
        ELSE /\ sres.ok
             /\ sres.value = info
             /\ info = [VersionMinor |-> resp[1], VersionMajor |-> resp[2],
                        MaxPacketSize |-> resp[3] + 256 * resp[4],
                        DeviceID |-> resp[7] + 256 * resp[8],
                        EraseRowSize |-> resp[11], WriteRowSize |-> resp[12],
                        ConfigWords |-> <<resp[13], resp[14], resp[15], resp[16]>>]

\* A response with non-zero reserved bytes has been decoded.
C24_Witness ==
    /\ pc = "done" /\ sres.ok
    /\ Len(resp) = 16
    /\ <<resp[5], resp[6], resp[9], resp[10]>> = <<77, 0, 77, 77>>
    /\ info.DeviceID = 2 + 256 * 131
    /\ info.MaxPacketSize = 131 + 256 * 2

\* The count send passes to the recv of a phase of the exchange of command c.
RecvCount(c, phase) ==
    IF phase = "echo" THEN echoLen(c) ELSE IF phase = "code" THEN 1 ELSE c.responseLength

\* C25: however the port splits the incoming bytes across its Reads, a recv
\* that returns data returns exactly the count bytes asked of it, the next
\* bytes of the stream, and takes no byte beyond them from the port.
C25_ReadExact ==
    InExchange =>
        /\ \A i \in 1 .. Len(got) : got[i].ok => Len(got[i].data) = RecvCount(cmd, got[i].phase)
        /\ pc \in {"echo", "code", "resp"} => Len(resp) < RecvCount(cmd, pc)

(***************************************************************************)
(* Claims about the erase and write arithmetic                             *)
(***************************************************************************)
\* The bytes from the start of the erase row of a segment's first byte to the
\* end of the segment, for a row size E that is a power of two.
EraseSpan(segment, E) == (segment.Address[2] % E) + Len(segment.Data)

\* C26 (for the erase row sizes that are powers of two): for each segment, in
\* sequence order, eraseSegments issues exactly one EraseFlash(start', n),
\* start' being the segment address with its low log2(E) bits cleared and n
\* the number of rows ceil((address + len(data) - start') / E), so that
\* [start', start' + n*E) contains every byte of the segment.
C26_EraseArithmetic ==
    (result.op = "Program" /\ IsPow2(info.EraseRowSize)) =>
        LET E == info.EraseRowSize
        IN  /\ Len(trace) <= Len(flash)
            /\ result.kind = "ok" => Len(trace) = Len(flash)
            /\ \A i \in 1 .. Len(trace) :
                   /\ trace[i].cmd = "EraseFlash"
                   /\ trace[i].addr = <<flash[i].Address[1],
                                        flash[i].Address[2] - (flash[i].Address[2] % E)>>
                   /\ trace[i].n = (EraseSpan(flash[i], E) + E - 1) \div E
                   /\ trace[i].n * E >= EraseSpan(flash[i], E)
\* The W-aligned row of byte address b, by division.
RowOf(b, W) == <<b[1], b[2] - (b[2] % W)>>

\* The W-aligned rows holding at least one byte of the segments.
RowsHolding(segments, W) ==
    UNION {{RowOf(Add32(segments[k].Address, ToUint32(j - 1)), W) :
                j \in 1 .. Len(segments[k].Data)} : k \in 1 .. Len(segments)}

\* The segments (by index) that cover byte address a.
Covering(segments, a) ==
    {k \in 1 .. Len(segments) : ByteIn(a, segments[k].Address, Len(segments[k].Data))}

\* The byte a write holds for address a: that of the last segment covering a,
\* 0xFF when none does.
PaddedByte(segments, a) ==
    LET cov == Covering(segments, a)
        last == CHOOSE k \in cov : \A m \in cov : m <= k
    IN  IF cov = {} THEN 255
        ELSE segments[last].Data[Sub32(a, segments[last].Address)[2] + 1]

\* The regions Program writes, each with its write command.
WrittenRegions ==
    {[name |-> "WriteFlash", segments |-> flash]}
        \cup (IF options.ProgramEEPROM THEN {[name |-> "WriteEE", segments |-> eeprom]} ELSE {})
        \cup (IF options.ProgramConfig THEN {[name |-> "WriteConfig", segments |-> config]} ELSE {})
        \cup (IF options.ProgramID THEN {[name |-> "WriteFlash", segments |-> id]} ELSE {})

\* The positions of the write commands in the trace.
WritesIn == {i \in 1 .. Len(trace) : trace[i].cmd \in {"WriteFlash", "WriteEE", "WriteConfig"}}

\* C27: for a write row size W that is a power of two, every write command of
\* Program is for a W-aligned row holding a byte of a segment of its region,
\* no row is written twice, a Program that returns nil has written every such
\* row, and each write carries exactly W bytes, the byte at offset k being
\* that of the last segment (in sequence order) covering row + k, 0xFF if none.
C27_PaddingLaw ==
    (result.op = "Program" /\ IsPow2(info.WriteRowSize)) =>
        LET W == info.WriteRowSize
        IN  /\ \A i \in WritesIn :
                   /\ trace[i].addr[2] % W = 0
                   /\ Len(trace[i].data) = W
                   /\ \E r \in WrittenRegions :
                          /\ r.name = trace[i].cmd
                          /\ trace[i].addr \in RowsHolding(r.segments, W)
                          /\ \A k \in 0 .. W - 1 :
                                 trace[i].data[k + 1]
                                     = PaddedByte(r.segments, Add32(trace[i].addr, ToUint32(k)))
            /\ \A i, j \in WritesIn :
                   (i # j /\ trace[i].cmd = trace[j].cmd) => trace[i].addr # trace[j].addr
            /\ result.kind = "ok" =>
                   \A r \in WrittenRegions : \A row \in RowsHolding(r.segments, W) :
                       \E i \in WritesIn : trace[i].cmd = r.name /\ trace[i].addr = row

\* A Program that returned nil after writing a row in which a later segment
\* replaced a byte of an earlier one and a gap was filled with 0xFF.
C27_Witness ==
    /\ result.op = "Program"
    /\ result.kind = "ok"
    /\ info.WriteRowSize = 4
    /\ \E i \in WritesIn :
           /\ trace[i].addr = U32(2048)
           /\ trace[i].data = <<255, 1, 2, 3>>
           /\ Cardinality(Covering(flash, U32(2050))) = 2

(***************************************************************************)
(* Claims about the stored state                                           *)
(***************************************************************************)
\* The four segment sequences.
Sequences4 == <<flash, id, config, eeprom>>

\* C29: a step of Program, Verify or Reset, whether the call returns nil or an
\* error, leaves the four segment sequences and the cached version info as
\* they were; a step that changes a sequence is a LoadHex and a step that
\* changes the version info is a Connect.
C29_StoredStateKept ==
    [][/\ result'.op \in {"Program", "Verify", "Reset"} =>
              (Sequences4' = Sequences4 /\ info' = info)
       /\ Sequences4' # Sequences4 => result'.op = "LoadHex"
       /\ info' # info => result'.op = "Connect"]_vars

\* Program, Verify or Reset has returned, nil or an error, with segments
\* stored and the device's version info cached.
C29_Witness ==
    /\ result.op \in {"Program", "Verify", "Reset"}
    /\ result.kind = "error"
    /\ trace # <<>>
    /\ flash # <<>> /\ eeprom # <<>>
    /\ info # ZeroInfo

\* C30: in every reachable state every stored flash segment, with its pad,
\* lies wholly inside application flash: its address is at least
\* bootloader_offset and its address plus its length is at most flash_size,
\* in arithmetic that does not wrap.
C30_FlashInsideApplication ==
    \A i \in 1 .. Len(flash) : Contains(flash[i], profile.BootloaderOffset, profile.FlashSize)

(***************************************************************************)
(* Claims about successive LoadHex calls                                   *)
(***************************************************************************)
\* Whether sequence a is the beginning of sequence b.
IsPrefix(a, b) == Len(a) <= Len(b) /\ SubSeq(b, 1, Len(a)) = a

\* The segment as LoadHex stores it in region r.
StoredAs(segment, r) ==
    IF r = "flash" /\ Len(segment.Data) % 2 = 1 THEN Seg(segment.Address, segment.Data \o <<255>>)
    ELSE IF r = "config"
    THEN Seg(segment.Address,
             [k \in 1 .. Len(segment.Data) |-> IF segment.Data[k] = 255 THEN 0 ELSE segment.Data[k]])
    ELSE segment

\* The segments of `segments` classified into region r, as stored, in order.
ClassifiedInto(segments, r) ==
    LET taken == TakenOf(segments, r, profile)
    IN  [i \in 1 .. Len(taken) |-> StoredAs(taken[i], r)]

\* C31: no step shortens or rewrites a region's sequence (each sequence is
\* the beginning of its next value); a LoadHex step, failed or not, appends
\* to each sequence the segments it classified into that region before it
\* returned, in input order, after those of earlier calls; and a Program
\* that then returns nil (write row size a power of two) has written, for
\* every byte of every stored segment of a region it programs, the row
\* holding it.
C31_AppendOnly ==
    /\ [][/\ IsPrefix(flash, flash') /\ IsPrefix(id, id')
          /\ IsPrefix(config, config') /\ IsPrefix(eeprom, eeprom')
          /\ LoadHexStep =>
                 LET done == SubSeq(input', 1, Stored)
                 IN  /\ flash' = flash \o ClassifiedInto(done, "flash")
                     /\ id' = id \o ClassifiedInto(done, "id")
                     /\ config' = config \o ClassifiedInto(done, "config")
                     /\ eeprom' = eeprom \o ClassifiedInto(done, "eeprom")
                     /\ (result'.kind = "error" => Stored < Len(input'))]_vars
    /\ []((result.op = "Program" /\ result.kind = "ok" /\ IsPow2(info.WriteRowSize)) =>
              \A r \in WrittenRegions : \A k \in 1 .. Len(r.segments) :
                  \A j \in 1 .. Len(r.segments[k].Data) :
                      LET a == Add32(r.segments[k].Address, ToUint32(j - 1))
                          row == RowOf(a, info.WriteRowSize)
                      IN  \E i \in WritesIn :
                              /\ trace[i].cmd = r.name
                              /\ trace[i].addr = row
                              /\ trace[i].data[a[2] - row[2] + 1] = PaddedByte(r.segments, a))

\* Program has returned nil after writing two flash segments that two LoadHex
\* calls stored (one file's segments come in address order, these do not).
C31_Witness ==
    /\ result.op = "Program" /\ result.kind = "ok"
    /\ info.WriteRowSize = 4
    /\ Len(flash) = 2
    /\ Lt32(flash[2].Address, flash[1].Address)
    /\ \A k \in 1 .. 2 : \E i \in WritesIn :
           trace[i].cmd = "WriteFlash" /\ trace[i].addr = RowOf(flash[k].Address, 4)

(***************************************************************************)
(* Claims about termination                                                *)
(***************************************************************************)
\* The version infos a successful Connect caches from the devices of the model.
CachedByConnect ==
    {ParseGetVersionResponse(VersionResponse(ew[1], ew[2])).info : ew \in RowSizes}

\* C32: whatever segments are loaded and whatever row sizes a successful
\* Connect has cached, every call of Program and of Verify returns nil or an
\* error: none loops for ever and none panics.
C32_Termination ==
    (result.op \in {"Program", "Verify"} /\ info \in CachedByConnect) =>
        result.kind \in {"ok", "error"}

====
